---- MODULE Spec2Model ----
(***************************************************************************)
(* Piece lifecycle, piece-request queue, peer download tasks and range     *)
(* reads of the stream-while-download engine (crates/domain,               *)
(* crates/application).  One torrent (id 1) is modelled; its rows in the   *)
(* torrent and piece repositories, the files on disk and the in-memory     *)
(* tables of PieceManager / StreamingBuffer / StreamingServiceImpl are the *)
(* state.                                                                  *)
(***************************************************************************)
EXTENDS Integers, Naturals, Sequences, FiniteSets, TLC

(* ---------------- bounds of the model ---------------- *)
PieceCount == 2
PieceLength == 2
NumPeers == 2
MaxQueue == 3
MaxServed == 3
NumIngest == 2

MaxPeerRecords == 3

NumTrackers == 2

MaxNow == 1800

\* queue length up to which prefetch cycles are followed
MaxPrefetchQueue == 12

(* ---------------- the torrent under download ---------------- *)
\* total_size of the torrent: the last piece is one byte long
TotalSize == PieceLength * (PieceCount - 1) + 1
PieceIdx == 0 .. (PieceCount - 1)
Peers == 1 .. NumPeers

\* the logical content of the torrent: byte k (1-based) has value k
Content == [k \in 1 .. TotalSize |-> k]

Min(a, b) == IF a < b THEN a ELSE b
Max(a, b) == IF a > b THEN a ELSE b

\* bytes of piece i of the logical content
PieceBytes(i) == SubSeq(Content, i * PieceLength + 1, Min((i + 1) * PieceLength, TotalSize))

\* a payload of the length of piece i that differs from it in every byte
CorruptBytes(i) == [k \in 1 .. Len(PieceBytes(i)) |-> 200 + k]

\* payloads a caller or a peer may hand in
DataSet == {PieceBytes(i) : i \in PieceIdx} \cup {CorruptBytes(i) : i \in PieceIdx}

\* PiecePriority: Low = 0, Normal = 1, High = 2, Urgent = 3
Low == 0
Normal == 1
High == 2
Urgent == 3
Priorities == {Low, Normal, High, Urgent}

(* ---------------- hashing ---------------- *)
\* digest of a byte string: injective on byte strings (no collisions)
RECURSIVE Sha1(_)
Sha1(data) == IF data = << >> THEN 1 ELSE Sha1(SubSeq(data, 1, Len(data) - 1)) * 257 + data[Len(data)] + 1

\* hex::encode / format!("{:x}"): digest to lowercase hex digits (values 0..15)
RECURSIVE HexEncode(_)
HexEncode(n) == IF n < 16 THEN << n >> ELSE Append(HexEncode(n \div 16), n % 16)

\* hex::decode: hex digits back to the digest
RECURSIVE HexDecode(_)
HexDecode(s) == IF s = << >> THEN 0 ELSE HexDecode(SubSeq(s, 1, Len(s) - 1)) * 16 + s[Len(s)]

\* DownloadService::calculate_sha1: hex string of the digest
calculate_sha1(data) == HexEncode(Sha1(data))

\* Piece.hash as initialize_pieces_from_torrent stores it
ExpectedHash(i) == HexEncode(Sha1(PieceBytes(i)))

VARIABLES
    pieces,     \* piece repository: piece_index -> [downloaded, verified]
    torrent,    \* torrent row: [status, progress, file_path]
    files,      \* file system: [dl, other, tmp]
    queue,      \* PieceManager.pending_requests of the torrent
    peers,      \* download_from_peer tasks: peer -> [pc, piece]
    buffers,    \* StreamingBuffer.buffers: session id -> SessionBuffer
    sessions,   \* StreamingServiceImpl.sessions: session id -> StreamSession
    prefetch,   \* session ids whose background buffering task is running
    last,       \* the call that returned last and its result
    repo,       \* torrent, tracker and piece tables as the ingest calls see them
    ingest,     \* running add_torrent_from_file / add_torrent calls
    udp,        \* the running udp_tracker_announce call: its position, socket traffic and result
    decoded,    \* the tracker response decoded last: its peer bytes and the result
    trackers,   \* tracker rows of the torrent: id -> [status, last_announce, next_announce]
    now,        \* SystemTime::now() in seconds
    announcing, \* the running announce_to_trackers and perform_periodic_announces calls
    contacted,  \* per tracker: its status when it was announced to last, the interval of its last successful response
    handshakes, \* peer rows: the persisted status and the handshake the peer answered last
    service,    \* running TorrentService calls and handle_piece_data calls, and whether a verification failed
    choking,    \* per peer task: peer_choking of its connection, the remote peer has not unchoked us
    peer_store, \* the Peers relation: its rows in insertion order, the peer list saved last and the result
    lookups     \* get_buffered_data calls between their two buffer lookups, and the buffering tasks that left their loop

vars == << pieces, torrent, files, queue, peers, buffers, sessions, prefetch, last, repo, ingest, udp, decoded,
          trackers, now, announcing, contacted, handshakes, service, choking, peer_store, lookups >>


(* ---------------- entities ---------------- *)
\* Piece::new
NewPiece == [downloaded |-> FALSE, verified |-> FALSE]

\* Piece::mark_downloaded
mark_downloaded(p) == [p EXCEPT !.downloaded = TRUE]

\* Piece::mark_verified: a failed verification also clears downloaded
mark_verified(p, v) == IF v THEN [p EXCEPT !.verified = TRUE] ELSE [p EXCEPT !.verified = FALSE, !.downloaded = FALSE]

\* Piece::is_complete
is_complete(p) == p.downloaded /\ p.verified

\* PieceRepository::count_downloaded: rows with downloaded and verified
count_downloaded(ps) == Cardinality({i \in PieceIdx : ps[i].downloaded /\ ps[i].verified})

\* update_progress with Completed set one piece early
update_progress_early(t, downloaded_pieces) ==
    [t EXCEPT !.progress = downloaded_pieces,
              !.status = IF downloaded_pieces >= PieceCount - 1 THEN "Completed" ELSE t.status]

\* Torrent::update_progress: progress is kept as the numerator over
\* piece_count; progress >= 1.0 exactly when the numerator reaches piece_count
update_progress(t, downloaded_pieces) ==
    [t EXCEPT !.progress = downloaded_pieces,
              !.status = IF downloaded_pieces >= PieceCount THEN "Completed" ELSE t.status]

(* ---------------- files ---------------- *)
\* seek to offset and write_all: holes read back as zero bytes
WriteAt(file, offset, data) ==
    [k \in 1 .. Max(Len(file), offset + Len(data)) |->
        IF k > offset /\ k <= offset + Len(data) THEN data[k - offset]
        ELSE IF k <= Len(file) THEN file[k] ELSE 0]

\* DownloadService::write_piece_data: the file at file_path, or a temporary
\* file per piece when the torrent has no file_path
write_piece_data(fs, t, i, data) ==
    IF t.file_path = "in_dir" THEN [fs EXCEPT !.dl = WriteAt(fs.dl, i * PieceLength, data)]
    ELSE IF t.file_path = "elsewhere" THEN [fs EXCEPT !.other = WriteAt(fs.other, i * PieceLength, data)]
    ELSE [fs EXCEPT !.tmp[i] = data]

(* ---------------- piece completion ---------------- *)
\* DownloadService::complete_piece: the rows and files after the call and
\* what it returns
complete_piece(ps, fs, t, i, data) ==
    LET verified == calculate_sha1(data) = ExpectedHash(i)
    IN IF verified
       THEN [pieces |-> [ps EXCEPT ![i] = mark_verified(mark_downloaded(ps[i]), TRUE)],
             files |-> write_piece_data(fs, t, i, data),
             res |-> "Ok"]
       ELSE [pieces |-> [ps EXCEPT ![i] = mark_verified(ps[i], FALSE)],
             files |-> fs,
             res |-> "PieceVerificationFailed"]

\* PieceManager::mark_piece_completed: compares the raw digests and on a
\* match sets both flags; a mismatch returns before any update
mark_piece_completed(ps, i, data) ==
    IF Sha1(data) # HexDecode(ExpectedHash(i))
    THEN [pieces |-> ps, res |-> "ValidationError"]
    ELSE [pieces |-> [ps EXCEPT ![i] = [downloaded |-> TRUE, verified |-> TRUE]], res |-> "Ok"]

(* ---------------- piece-request queue ---------------- *)
\* InsertPos stopping at the first request of lower or equal priority
InsertPos_before_equal(q, priority) ==
    IF \E k \in 1 .. Len(q) : q[k].priority <= priority
    THEN CHOOSE k \in 1 .. Len(q) : q[k].priority <= priority /\ \A j \in 1 .. (k - 1) : ~(q[j].priority <= priority)
    ELSE Len(q) + 1

\* position of the first queued request of lower priority (1-based), or
\* one past the end
InsertPos(q, priority) ==
    IF \E k \in 1 .. Len(q) : q[k].priority < priority
    THEN CHOOSE k \in 1 .. Len(q) : q[k].priority < priority /\ \A j \in 1 .. (k - 1) : ~(q[j].priority < priority)
    ELSE Len(q) + 1

\* PieceManager::request_piece
request_piece(q, piece_index, priority, requester) ==
    LET pos == InsertPos(q, priority)
        request == [piece_index |-> piece_index, priority |-> priority, requester |-> requester]
    IN SubSeq(q, 1, pos - 1) \o << request >> \o SubSeq(q, pos, Len(q))

\* PieceManager::get_next_piece_request: pop_front of the torrent's queue
get_next_piece_request(q) ==
    IF q = << >> THEN [res |-> "None", piece_index |-> 0, priority |-> 0, queue |-> q]
    ELSE [res |-> "Some", piece_index |-> Head(q).piece_index, priority |-> Head(q).priority, queue |-> Tail(q)]

\* PieceManager::is_piece_available
is_piece_available(ps, i) == i \in PieceIdx /\ ps[i].downloaded /\ ps[i].verified

(* ---------------- reads ---------------- *)
\* PieceManager::read_piece_data: reads <download_dir>/<file name>
read_piece_data(ps, fs, i) ==
    LET piece_offset == i * PieceLength
        actual_piece_size == IF i = PieceCount - 1 THEN Min(TotalSize - piece_offset, PieceLength) ELSE PieceLength
    IN IF ~is_piece_available(ps, i) THEN [res |-> "NotFound", bytes |-> << >>]
       ELSE IF Len(fs.dl) = 0 \/ piece_offset + actual_piece_size > Len(fs.dl) THEN [res |-> "IoError", bytes |-> << >>]
       ELSE [res |-> "Ok", bytes |-> SubSeq(fs.dl, piece_offset + 1, piece_offset + actual_piece_size)]

\* one iteration of the loop of read_range for piece_index, then the rest
RECURSIVE read_range_loop(_, _, _, _, _, _, _, _)
read_range_loop(ps, fs, q, piece_index, end_piece, result, current_offset, remaining_length) ==
    IF piece_index > end_piece THEN [res |-> "Ok", bytes |-> result, queue |-> q]
    ELSE IF ~is_piece_available(ps, piece_index)
    THEN [res |-> "NotFound", bytes |-> << >>, queue |-> request_piece(q, piece_index, Urgent, "streaming")]
    ELSE LET rd == read_piece_data(ps, fs, piece_index)
             piece_data == rd.bytes
             piece_start_offset == piece_index * PieceLength
             piece_end_offset == piece_start_offset + Len(piece_data) - 1
             read_start == IF current_offset > piece_start_offset THEN current_offset - piece_start_offset ELSE 0
             read_end == IF current_offset + remaining_length - 1 < piece_end_offset
                         THEN ((current_offset + remaining_length - 1) - piece_start_offset) + 1
                         ELSE Len(piece_data)
             take == read_start < Len(piece_data) /\ read_end > read_start
             chunk == IF take THEN SubSeq(piece_data, read_start + 1, read_end) ELSE << >>
             remaining == Max(remaining_length - Len(chunk), 0)
         IN IF rd.res # "Ok" THEN [res |-> rd.res, bytes |-> << >>, queue |-> q]
            ELSE IF remaining = 0 THEN [res |-> "Ok", bytes |-> result \o chunk, queue |-> q]
            ELSE read_range_loop(ps, fs, q, piece_index + 1, end_piece, result \o chunk, current_offset + Len(chunk), remaining)

\* PieceManager::read_range
read_range(ps, fs, q, start_offset, length) ==
    read_range_loop(ps, fs, q, start_offset \div PieceLength, (start_offset + length - 1) \div PieceLength, << >>, start_offset, length)


(* ---------------- ingest ---------------- *)
\* .torrent files handed to ingest: their info hash, piece count and main
\* announce URL (none: << >>); the third one does not parse
TorrentFiles ==
    {[valid |-> TRUE, info_hash |-> 1, piece_count |-> 2, urls |-> << "u1" >>],
     [valid |-> TRUE, info_hash |-> 2, piece_count |-> 1, urls |-> << >>],
     [valid |-> FALSE, info_hash |-> 0, piece_count |-> 0, urls |-> << >>]}

\* concurrent ingest calls, one per task
IngestTasks == 1 .. NumIngest

\* the tables before any ingest
EmptyRepo == [torrents |-> << >>, trackers |-> << >>, pieces |-> << >>]

\* a task that runs no call
IdleIngest == [pc |-> "idle", kind |-> "none", file |-> CHOOSE f \in TorrentFiles : ~f.valid,
               saved_id |-> 0, res |-> "none", dup |-> FALSE, wrote |-> 0]

\* the Torrents relation accepts two rows with the same info hash
InfoHashUnique_off == FALSE

\* the Torrents relation is keyed by the info hash: a second row with the
\* same info hash is rejected
InfoHashUnique == TRUE

\* TorrentRepository::find_by_info_hash
find_by_info_hash(r, info_hash) == \E k \in 1 .. Len(r.torrents) : r.torrents[k].info_hash = info_hash

\* the insert statement of TorrentRepository::save: the new row gets the
\* next id; rejected when the key is taken
\* the id the table gives a new row: one more than the largest id stored
next_torrent_id(r) ==
    IF r.torrents = << >> THEN 1
    ELSE 1 + (CHOOSE m \in {r.torrents[k].id : k \in 1 .. Len(r.torrents)} :
                 \A k \in 1 .. Len(r.torrents) : r.torrents[k].id <= m)

insert_torrent(r, f) ==
    IF InfoHashUnique /\ find_by_info_hash(r, f.info_hash)
    THEN [ok |-> FALSE, repo |-> r]
    ELSE [ok |-> TRUE,
          repo |-> [r EXCEPT !.torrents = Append(@, [id |-> next_torrent_id(r), info_hash |-> f.info_hash, piece_count |-> f.piece_count])]]

\* the select statement of TorrentRepository::save: the row with the
\* highest id
last_inserted_id(r) == r.torrents[Len(r.torrents)].id

\* PieceRepository::find_by_torrent_id
pieces_of(r, torrent_id) == SelectSeq(r.pieces, LAMBDA row : row.torrent_id = torrent_id)

\* the rows initialize_pieces_from_torrent creates: one per piece hash of
\* the file, Piece::new
NewPieceRows(torrent_id, f) ==
    [k \in 1 .. f.piece_count |-> [torrent_id |-> torrent_id, piece_index |-> k - 1, downloaded |-> FALSE, verified |-> FALSE]]

\* the call of task t ends with result res
IngestDone(t, res) == [ingest[t] EXCEPT !.pc = "done", !.res = res]

\* add_torrent_from_file(file) is called: parse_torrent_file
AddTorrentFromFile(t, f) ==
    /\ ingest[t].pc = "idle"
    /\ LET call == [IdleIngest EXCEPT !.kind = "file", !.file = f, !.dup = find_by_info_hash(repo, f.info_hash)]
       IN ingest' = [ingest EXCEPT ![t] = IF f.valid THEN [call EXCEPT !.pc = "check"]
                                           ELSE [call EXCEPT !.pc = "done", !.res = "ValidationError"]]
    /\ UNCHANGED << pieces, torrent, files, queue, peers, buffers, sessions, prefetch, last, repo, udp, decoded, trackers, now, announcing, contacted, handshakes, service, choking, peer_store, lookups >>

\* add_torrent(torrent) is called with a parsed torrent
AddTorrent(t, f) ==
    /\ ingest[t].pc = "idle"
    /\ f.valid
    /\ ingest' = [ingest EXCEPT ![t] = [IdleIngest EXCEPT !.kind = "parsed", !.file = f, !.pc = "check",
                                                           !.dup = find_by_info_hash(repo, f.info_hash)]]
    /\ UNCHANGED << pieces, torrent, files, queue, peers, buffers, sessions, prefetch, last, repo, udp, decoded, trackers, now, announcing, contacted, handshakes, service, choking, peer_store, lookups >>

\* find_by_info_hash returns: a stored torrent ends the call with
\* "Torrent already exists"; ok = FALSE is a failure of the repository
IngestCheck(t, ok) ==
    /\ ingest[t].pc = "check"
    /\ ingest' = [ingest EXCEPT ![t] =
                    IF ~ok THEN IngestDone(t, "RepositoryError")
                    ELSE IF find_by_info_hash(repo, ingest[t].file.info_hash) THEN IngestDone(t, "ValidationError")
                    ELSE [ingest[t] EXCEPT !.pc = "insert"]]
    /\ UNCHANGED << pieces, torrent, files, queue, peers, buffers, sessions, prefetch, last, repo, udp, decoded, trackers, now, announcing, contacted, handshakes, service, choking, peer_store, lookups >>

\* TorrentRepository::save, the insert
IngestInsert(t, ok) ==
    /\ ingest[t].pc = "insert"
    /\ LET r == insert_torrent(repo, ingest[t].file)
       IN IF ~ok THEN /\ ingest' = [ingest EXCEPT ![t] = IngestDone(t, "RepositoryError")]
                      /\ repo' = repo
          ELSE IF ~r.ok THEN /\ ingest' = [ingest EXCEPT ![t] = IngestDone(t, "RepositoryError:unique")]
                             /\ repo' = repo
          ELSE /\ ingest' = [ingest EXCEPT ![t] = [ingest[t] EXCEPT !.pc = "select", !.wrote = @ + 1]]
               /\ repo' = r.repo
    /\ UNCHANGED << pieces, torrent, files, queue, peers, buffers, sessions, prefetch, last, udp, decoded, trackers, now, announcing, contacted, handshakes, service, choking, peer_store, lookups >>

\* TorrentRepository::save, the select of the last inserted row; add_torrent
\* returns it, add_torrent_from_file goes on with its id
IngestSelect(t, ok) ==
    /\ ingest[t].pc = "select"
    /\ ingest' = [ingest EXCEPT ![t] =
                    IF ~ok \/ repo.torrents = << >> THEN IngestDone(t, "RepositoryError")
                    ELSE IF ingest[t].kind = "parsed"
                    THEN [ingest[t] EXCEPT !.pc = "done", !.res = "Ok", !.saved_id = last_inserted_id(repo)]
                    ELSE [ingest[t] EXCEPT !.pc = "trackers", !.saved_id = last_inserted_id(repo)]]
    /\ UNCHANGED << pieces, torrent, files, queue, peers, buffers, sessions, prefetch, last, repo, udp, decoded, trackers, now, announcing, contacted, handshakes, service, choking, peer_store, lookups >>

\* extract_tracker_urls and TrackerRepository::save of the main announce URL
IngestTrackers(t, ok) ==
    /\ ingest[t].pc = "trackers"
    /\ LET urls == ingest[t].file.urls
       IN IF urls = << >> THEN /\ ingest' = [ingest EXCEPT ![t] = [ingest[t] EXCEPT !.pc = "pieces_find"]]
                               /\ repo' = repo
          ELSE IF ~ok THEN /\ ingest' = [ingest EXCEPT ![t] = IngestDone(t, "RepositoryError")]
                           /\ repo' = repo
          ELSE /\ ingest' = [ingest EXCEPT ![t] = [ingest[t] EXCEPT !.pc = "pieces_find", !.wrote = @ + 1]]
               /\ repo' = [repo EXCEPT !.trackers = Append(@, [torrent_id |-> ingest[t].saved_id, url |-> urls[1]])]
    /\ UNCHANGED << pieces, torrent, files, queue, peers, buffers, sessions, prefetch, last, udp, decoded, trackers, now, announcing, contacted, handshakes, service, choking, peer_store, lookups >>

\* initialize_pieces_from_torrent, find_by_torrent_id: existing rows end
\* the call with Ok
IngestPiecesFind(t, ok) ==
    /\ ingest[t].pc = "pieces_find"
    /\ ingest' = [ingest EXCEPT ![t] =
                    IF ~ok THEN IngestDone(t, "RepositoryError")
                    ELSE IF pieces_of(repo, ingest[t].saved_id) # << >> THEN IngestDone(t, "Ok")
                    ELSE [ingest[t] EXCEPT !.pc = "pieces_save"]]
    /\ UNCHANGED << pieces, torrent, files, queue, peers, buffers, sessions, prefetch, last, repo, udp, decoded, trackers, now, announcing, contacted, handshakes, service, choking, peer_store, lookups >>

\* initialize_pieces_from_torrent, save_batch
IngestPiecesSave(t, ok) ==
    /\ ingest[t].pc = "pieces_save"
    /\ IF ~ok THEN /\ ingest' = [ingest EXCEPT ![t] = IngestDone(t, "RepositoryError")]
                   /\ repo' = repo
       ELSE /\ ingest' = [ingest EXCEPT ![t] = [ingest[t] EXCEPT !.pc = "done", !.res = "Ok", !.wrote = @ + 1]]
            /\ repo' = [repo EXCEPT !.pieces = @ \o NewPieceRows(ingest[t].saved_id, ingest[t].file)]
    /\ UNCHANGED << pieces, torrent, files, queue, peers, buffers, sessions, prefetch, last, udp, decoded, trackers, now, announcing, contacted, handshakes, service, choking, peer_store, lookups >>

(* ---------------- UDP tracker ---------------- *)
\* a datagram and a packet are sequences of bytes; a u64 is the pair of its
\* high and low 32-bit halves
ProtocolId == << 1047, 655366528 >>

UdpConnectBuf == 16

UdpAnnounceBuf == 1024

UdpConnectSize == 16

UdpAnnounceHeader == 20

PeerRecordSize == 6

InfoHashBytes == 20

ClientPort == 6881

RECURSIVE to_be_bytes(_, _)
to_be_bytes(n, width) ==
    IF width = 0 THEN << >> ELSE Append(to_be_bytes(n \div 256, width - 1), n % 256)

RECURSIVE from_be_bytes(_)
from_be_bytes(bs) ==
    IF bs = << >> THEN 0 ELSE from_be_bytes(SubSeq(bs, 1, Len(bs) - 1)) * 256 + bs[Len(bs)]

u64_to_be_bytes(c) == to_be_bytes(c[1], 4) \o to_be_bytes(c[2], 4)

u64_from_be_bytes(bs) == << from_be_bytes(SubSeq(bs, 1, 4)), from_be_bytes(SubSeq(bs, 5, 8)) >>

\* hex::decode: a string is a sequence of characters
HexDigits == << "0", "1", "2", "3", "4", "5", "6", "7", "8", "9", "a", "b", "c", "d", "e", "f" >>

HexDigitsUpper == << "0", "1", "2", "3", "4", "5", "6", "7", "8", "9", "A", "B", "C", "D", "E", "F" >>

IsHexDigit(c) == \E i \in 1 .. 16 : HexDigits[i] = c \/ HexDigitsUpper[i] = c

HexVal(c) == (CHOOSE i \in 1 .. 16 : HexDigits[i] = c \/ HexDigitsUpper[i] = c) - 1

hex_decode(s) ==
    IF Len(s) % 2 # 0 \/ \E i \in 1 .. Len(s) : ~IsHexDigit(s[i])
    THEN [res |-> "Err", bytes |-> << >>]
    ELSE [res |-> "Ok",
          bytes |-> [i \in 1 .. (Len(s) \div 2) |-> HexVal(s[2 * i - 1]) * 16 + HexVal(s[2 * i])]]

\* socket.recv_from into a buffer of buflen bytes: the datagram is cut to the buffer
recv_from(d, buflen) == [size |-> Min(Len(d), buflen), buf |-> SubSeq(d, 1, Min(Len(d), buflen))]

\* values the random number generator can give
TxnIds == {1, 258}

PeerIdOf(txn) == [i \in 1 .. 20 |-> (txn + i) % 256]

KeyOf(txn) == txn + 7

\* the inputs of udp_tracker_announce
TrackerTorrentIds == {1, 2}

InfoHashes ==
    { [i \in 1 .. 40 |-> IF i % 2 = 1 THEN "a" ELSE "1"],
      [i \in 1 .. 40 |-> IF i = 7 THEN "z" ELSE "0"],
      [i \in 1 .. 38 |-> IF i % 2 = 1 THEN "C" ELSE "9"] }

\* the datagrams that can arrive on the socket
ConnIds == { << 0, 5 >>, << 1047, 7 >> }

ConnectResponse(action, txn, cid) ==
    to_be_bytes(action, 4) \o to_be_bytes(txn, 4) \o u64_to_be_bytes(cid)

PeerRecord(i) == << 10, 0, i \div 256, i % 256, 26, (224 + i) % 256 >>

PeerRecords(n) ==
    [k \in 1 .. (PeerRecordSize * n) |->
        PeerRecord(((k - 1) \div PeerRecordSize) + 1)[((k - 1) % PeerRecordSize) + 1]]

AnnounceResponse(action, txn, n, extra) ==
    to_be_bytes(action, 4) \o to_be_bytes(txn, 4) \o to_be_bytes(1800, 4)
        \o to_be_bytes(2, 4) \o to_be_bytes(3, 4) \o PeerRecords(n) \o [i \in 1 .. extra |-> 0]

PeerCounts == {0, 1, 3, 167, 168}

Datagrams ==
    { ConnectResponse(a, t, c) : a \in {0, 1, 3}, t \in TxnIds, c \in ConnIds }
    \cup { SubSeq(ConnectResponse(0, t, << 0, 5 >>), 1, 12) : t \in TxnIds }
    \cup { ConnectResponse(0, t, << 0, 5 >>) \o << 9, 9 >> : t \in TxnIds }
    \cup { AnnounceResponse(a, t, n, e) : a \in {0, 1, 3}, t \in TxnIds, n \in PeerCounts, e \in {0, 2} }
    \cup { SubSeq(AnnounceResponse(1, t, 0, 0), 1, 16) : t \in TxnIds }

RecvEvents == {"data", "timeout", "error"}

\* udp_connect: the request packet
ConnectRequest(transaction_id) ==
    u64_to_be_bytes(ProtocolId) \o to_be_bytes(0, 4) \o to_be_bytes(transaction_id, 4)

\* udp_connect: what it makes of the datagram received
udp_connect_parse_any_transaction(ev, d, transaction_id) ==
    LET r == recv_from(d, UdpConnectBuf)
    IN  IF ev = "timeout" THEN [res |-> "TrackerError", connection_id |-> << 0, 0 >>]
        ELSE IF ev = "error" THEN [res |-> "NetworkError", connection_id |-> << 0, 0 >>]
        ELSE IF r.size < UdpConnectSize THEN [res |-> "TrackerError", connection_id |-> << 0, 0 >>]
        ELSE IF from_be_bytes(SubSeq(r.buf, 1, 4)) # 0
             THEN [res |-> "TrackerError", connection_id |-> << 0, 0 >>]
        ELSE [res |-> "Ok", connection_id |-> u64_from_be_bytes(SubSeq(r.buf, 9, 16))]

udp_connect_parse(ev, d, transaction_id) ==
    LET r == recv_from(d, UdpConnectBuf)
    IN  IF ev = "timeout" THEN [res |-> "TrackerError", connection_id |-> << 0, 0 >>]
        ELSE IF ev = "error" THEN [res |-> "NetworkError", connection_id |-> << 0, 0 >>]
        ELSE IF r.size < UdpConnectSize THEN [res |-> "TrackerError", connection_id |-> << 0, 0 >>]
        ELSE IF from_be_bytes(SubSeq(r.buf, 1, 4)) # 0
             THEN [res |-> "TrackerError", connection_id |-> << 0, 0 >>]
        ELSE IF from_be_bytes(SubSeq(r.buf, 5, 8)) # transaction_id
             THEN [res |-> "TrackerError", connection_id |-> << 0, 0 >>]
        ELSE [res |-> "Ok", connection_id |-> u64_from_be_bytes(SubSeq(r.buf, 9, 16))]

\* udp_announce: the request packet
AnnounceRequest(connection_id, transaction_id, info_hash_bytes, peer_id, key) ==
    u64_to_be_bytes(connection_id) \o to_be_bytes(1, 4) \o to_be_bytes(transaction_id, 4)
        \o info_hash_bytes \o peer_id
        \o u64_to_be_bytes(<< 0, 0 >>) \o u64_to_be_bytes(<< 0, 0 >>) \o u64_to_be_bytes(<< 0, 0 >>)
        \o to_be_bytes(2, 4) \o to_be_bytes(0, 4) \o to_be_bytes(key, 4)
        \o << 255, 255, 255, 255 >> \o to_be_bytes(ClientPort, 2)

PeerOfChunk_low_byte_first(torrent_id, chunk) ==
    [torrent_id |-> torrent_id, ip |-> << chunk[1], chunk[2], chunk[3], chunk[4] >>,
     port |-> chunk[6] * 256 + chunk[5], status |-> "Disconnected"]

\* Peer::new of one 6-byte record; the dotted address is kept as its four numbers
PeerOfChunk(torrent_id, chunk) ==
    [torrent_id |-> torrent_id, ip |-> << chunk[1], chunk[2], chunk[3], chunk[4] >>,
     port |-> chunk[5] * 256 + chunk[6], status |-> "Disconnected"]

\* udp_announce: what it makes of the datagram received
udp_announce_parse(ev, d, transaction_id, torrent_id) ==
    LET r == recv_from(d, UdpAnnounceBuf)
        peer_data == SubSeq(r.buf, UdpAnnounceHeader + 1, r.size)
    IN  IF ev = "timeout" THEN [res |-> "TrackerError", peers |-> << >>]
        ELSE IF ev = "error" THEN [res |-> "NetworkError", peers |-> << >>]
        ELSE IF r.size < UdpAnnounceHeader THEN [res |-> "TrackerError", peers |-> << >>]
        ELSE IF from_be_bytes(SubSeq(r.buf, 1, 4)) # 1 THEN [res |-> "TrackerError", peers |-> << >>]
        ELSE IF from_be_bytes(SubSeq(r.buf, 5, 8)) # transaction_id
             THEN [res |-> "TrackerError", peers |-> << >>]
        ELSE IF Len(peer_data) % PeerRecordSize # 0 THEN [res |-> "TrackerError", peers |-> << >>]
        ELSE [res |-> "Ok",
              peers |-> [j \in 1 .. (Len(peer_data) \div PeerRecordSize) |->
                            PeerOfChunk(torrent_id,
                                SubSeq(peer_data, PeerRecordSize * (j - 1) + 1, PeerRecordSize * j))]]

IdleUdp ==
    [pc |-> "idle", torrent_id |-> 0, info_hash |-> << >>, transaction_id |-> 0,
     connection_id |-> << 0, 0 >>, sent |-> << >>, received |-> << >>, res |-> "none", peers |-> << >>]

\* udp_tracker_announce up to the first receive: the URL, the socket, the CONNECT request
UdpTrackerAnnounce(url_ok, bind_ok, send_ok, torrent_id, info_hash, txn) ==
    /\ udp.pc = "idle"
    /\ LET call == [IdleUdp EXCEPT !.torrent_id = torrent_id, !.info_hash = info_hash]
       IN  udp' = IF ~url_ok THEN [call EXCEPT !.pc = "done", !.res = "TrackerError"]
                  ELSE IF ~bind_ok \/ ~send_ok THEN [call EXCEPT !.pc = "done", !.res = "NetworkError"]
                  ELSE [call EXCEPT !.pc = "connect", !.transaction_id = txn,
                                    !.sent = << ConnectRequest(txn) >>]
    /\ UNCHANGED << pieces, torrent, files, queue, peers, buffers, sessions, prefetch, last, repo, ingest, decoded, trackers, now, announcing, contacted, handshakes, service, choking, peer_store, lookups >>

\* udp_connect from its receive on, then udp_announce up to its receive
UdpConnectReceive(ev, d, send_ok, txn) ==
    /\ udp.pc = "connect"
    /\ LET c == udp_connect_parse(ev, d, udp.transaction_id)
           h == hex_decode(udp.info_hash)
           got == [udp EXCEPT !.received = IF ev = "data" THEN Append(@, d) ELSE @]
       IN  udp' = IF c.res # "Ok" THEN [got EXCEPT !.pc = "done", !.res = c.res]
                  ELSE IF h.res # "Ok" \/ Len(h.bytes) # InfoHashBytes
                       THEN [got EXCEPT !.pc = "done", !.res = "TrackerError",
                                        !.connection_id = c.connection_id]
                  ELSE IF ~send_ok
                       THEN [got EXCEPT !.pc = "done", !.res = "NetworkError",
                                        !.connection_id = c.connection_id]
                  ELSE [got EXCEPT !.pc = "announce", !.connection_id = c.connection_id,
                                   !.transaction_id = txn,
                                   !.sent = Append(@, AnnounceRequest(c.connection_id, txn, h.bytes,
                                                                      PeerIdOf(txn), KeyOf(txn)))]
    /\ UNCHANGED << pieces, torrent, files, queue, peers, buffers, sessions, prefetch, last, repo, ingest, decoded, trackers, now, announcing, contacted, handshakes, service, choking, peer_store, lookups >>

\* udp_announce from its receive on
UdpAnnounceReceive(ev, d) ==
    /\ udp.pc = "announce"
    /\ LET a == udp_announce_parse(ev, d, udp.transaction_id, udp.torrent_id)
           got == [udp EXCEPT !.received = IF ev = "data" THEN Append(@, d) ELSE @]
       IN  udp' = [got EXCEPT !.pc = "done", !.res = a.res, !.peers = a.peers]
    /\ UNCHANGED << pieces, torrent, files, queue, peers, buffers, sessions, prefetch, last, repo, ingest, decoded, trackers, now, announcing, contacted, handshakes, service, choking, peer_store, lookups >>

(* ---------------- tracker response decoding ---------------- *)
\* the bytes of the characters the bencoding parser looks at
Ch == [i |-> 105, l |-> 108, d |-> 100, e |-> 101, colon |-> 58, zero |-> 48, nine |-> 57,
       minus |-> 45, plus |-> 43]

KeyPeers == << 112, 101, 101, 114, 115 >>

KeyFailureReason == << 102, 97, 105, 108, 117, 114, 101, 32, 114, 101, 97, 115, 111, 110 >>

KeyInterval == << 105, 110, 116, 101, 114, 118, 97, 108 >>

KeyIp == << 105, 112 >>

KeyPort == << 112, 111, 114, 116 >>

ParseErr == [ok |-> FALSE, value |-> << >>, position |-> 0]

\* BencodedParser::find_byte: the first index at or after position holding byte
find_byte(data, position, byte) ==
    IF \E k \in (position + 1) .. Len(data) : data[k] = byte
    THEN [ok |-> TRUE,
          pos |-> (CHOOSE k \in (position + 1) .. Len(data) :
                      data[k] = byte /\ \A j \in (position + 1) .. (k - 1) : data[j] # byte) - 1]
    ELSE [ok |-> FALSE, pos |-> 0]

RECURSIVE DigitsValue(_)
DigitsValue(bs) ==
    IF bs = << >> THEN 0 ELSE DigitsValue(SubSeq(bs, 1, Len(bs) - 1)) * 10 + (bs[Len(bs)] - Ch.zero)

\* str::parse::<i64> (signed) and str::parse::<usize> of a byte string
parse_number(bs, signed) ==
    LET neg  == signed /\ bs # << >> /\ bs[1] = Ch.minus
        body == IF bs # << >> /\ (bs[1] = Ch.plus \/ neg) THEN Tail(bs) ELSE bs
    IN  IF body = << >> \/ \E k \in 1 .. Len(body) : body[k] \notin Ch.zero .. Ch.nine
        THEN [ok |-> FALSE, value |-> 0]
        ELSE [ok |-> TRUE, value |-> IF neg THEN 0 - DigitsValue(body) ELSE DigitsValue(body)]

RECURSIVE bencode_parse(_, _)
RECURSIVE parse_list_items(_, _, _)
RECURSIVE parse_dict_items(_, _, _)

parse_int(data, position) ==
    LET end == find_byte(data, position + 1, Ch.e)
        n   == parse_number(SubSeq(data, position + 2, end.pos), TRUE)
    IN  IF ~end.ok \/ ~n.ok THEN ParseErr
        ELSE [ok |-> TRUE, value |-> [t |-> "Int", v |-> n.value], position |-> end.pos + 1]

parse_string(data, position) ==
    LET colon_pos == find_byte(data, position, Ch.colon)
        len       == parse_number(SubSeq(data, position + 1, colon_pos.pos), FALSE)
    IN  IF ~colon_pos.ok \/ ~len.ok THEN ParseErr
        ELSE IF colon_pos.pos + 1 + len.value > Len(data) THEN ParseErr
        ELSE [ok |-> TRUE,
              value |-> [t |-> "String",
                         v |-> SubSeq(data, colon_pos.pos + 2, colon_pos.pos + 1 + len.value)],
              position |-> colon_pos.pos + 1 + len.value]

parse_list_items(data, position, list) ==
    IF position < Len(data) /\ data[position + 1] # Ch.e
    THEN LET r == bencode_parse(data, position)
         IN  IF ~r.ok THEN ParseErr ELSE parse_list_items(data, r.position, Append(list, r.value))
    ELSE IF position >= Len(data) THEN ParseErr
    ELSE [ok |-> TRUE, value |-> [t |-> "List", v |-> list], position |-> position + 1]

parse_list(data, position) == parse_list_items(data, position + 1, << >>)

parse_dict_items(data, position, dict) ==
    IF position < Len(data) /\ data[position + 1] # Ch.e
    THEN LET key == bencode_parse(data, position)
         IN  IF ~key.ok THEN ParseErr
             ELSE IF key.value.t # "String" THEN ParseErr
             ELSE LET value == bencode_parse(data, key.position)
                  IN  IF ~value.ok THEN ParseErr
                      ELSE parse_dict_items(data, value.position,
                              [k \in DOMAIN dict \cup {key.value.v} |->
                                  IF k = key.value.v THEN value.value ELSE dict[k]])
    ELSE IF position >= Len(data) THEN ParseErr
    ELSE [ok |-> TRUE, value |-> [t |-> "Dict", v |-> dict], position |-> position + 1]

parse_dict(data, position) == parse_dict_items(data, position + 1, << >>)

bencode_parse(data, position) ==
    IF position >= Len(data) THEN ParseErr
    ELSE IF data[position + 1] = Ch.i THEN parse_int(data, position)
    ELSE IF data[position + 1] = Ch.l THEN parse_list(data, position)
    ELSE IF data[position + 1] = Ch.d THEN parse_dict(data, position)
    ELSE IF data[position + 1] \in Ch.zero .. Ch.nine THEN parse_string(data, position)
    ELSE ParseErr

\* the peers of a list of peer dictionaries; elements that are no dictionary are skipped
RECURSIVE peers_of_list(_, _, _)
peers_of_list(torrent_id, peer_list, acc) ==
    IF peer_list = << >> THEN [res |-> "Ok", peers |-> acc]
    ELSE LET p == Head(peer_list)
         IN  IF p.t # "Dict" THEN peers_of_list(torrent_id, Tail(peer_list), acc)
             ELSE IF KeyIp \notin DOMAIN p.v \/ p.v[KeyIp].t # "String"
                  THEN [res |-> "TrackerError", peers |-> << >>]
             ELSE IF KeyPort \notin DOMAIN p.v \/ p.v[KeyPort].t # "Int"
                  THEN [res |-> "TrackerError", peers |-> << >>]
             ELSE peers_of_list(torrent_id, Tail(peer_list),
                     Append(acc, [torrent_id |-> torrent_id, ip |-> p.v[KeyIp].v,
                                  port |-> p.v[KeyPort].v % 65536, status |-> "Disconnected"]))

\* the peers of a compact peer string
compact_peers_of(torrent_id, compact_peers) ==
    IF Len(compact_peers) % PeerRecordSize # 0 THEN [res |-> "TrackerError", peers |-> << >>]
    ELSE [res |-> "Ok",
          peers |-> [j \in 1 .. (Len(compact_peers) \div PeerRecordSize) |->
                        PeerOfChunk(torrent_id,
                            SubSeq(compact_peers, PeerRecordSize * (j - 1) + 1, PeerRecordSize * j))]]

parse_tracker_response(torrent_id, response_bytes) ==
    LET r == parse_dict(response_bytes, 0)
    IN  IF ~r.ok THEN [res |-> "TrackerError", peers |-> << >>]
        ELSE IF KeyFailureReason \in DOMAIN r.value.v /\ r.value.v[KeyFailureReason].t = "String"
             THEN [res |-> "TrackerError", peers |-> << >>]
        ELSE IF KeyPeers \notin DOMAIN r.value.v THEN [res |-> "TrackerError", peers |-> << >>]
        ELSE IF r.value.v[KeyPeers].t = "String" THEN compact_peers_of(torrent_id, r.value.v[KeyPeers].v)
        ELSE IF r.value.v[KeyPeers].t = "List" THEN peers_of_list(torrent_id, r.value.v[KeyPeers].v, << >>)
        ELSE [res |-> "TrackerError", peers |-> << >>]

\* the responses a tracker can give, as the bencoding of their parts
RECURSIVE ToDigits(_)
ToDigits(n) == IF n < 10 THEN << Ch.zero + n >> ELSE Append(ToDigits(n \div 10), Ch.zero + (n % 10))

BStr(bs) == ToDigits(Len(bs)) \o << Ch.colon >> \o bs

BInt(n) == << Ch.i >> \o ToDigits(n) \o << Ch.e >>

SampleRecords == { << 10, 0, 0, 1, 26, 225 >>, << 101, 58, 105, 100, 0, 80 >>, << 255, 1, 2, 3, 200, 213 >> }

RecordLists == UNION { [1 .. n -> SampleRecords] : n \in 0 .. MaxPeerRecords }

Flatten(rs) ==
    [k \in 1 .. (PeerRecordSize * Len(rs)) |-> rs[((k - 1) \div PeerRecordSize) + 1][((k - 1) % PeerRecordSize) + 1]]

\* peer strings: whole records, and the same with bytes added or missing at the end
PeerStrings ==
    { Flatten(rs) : rs \in RecordLists }
    \cup { Flatten(rs) \o << 7 >> : rs \in RecordLists }
    \cup { SubSeq(Flatten(rs), 1, Len(Flatten(rs)) - 2) : rs \in RecordLists \ { << >> } }

RECURSIVE PeerDicts(_)
PeerDicts(pl) ==
    IF Len(pl) < PeerRecordSize THEN << >>
    ELSE << Ch.d >> \o BStr(KeyIp) \o BStr(SubSeq(pl, 1, 4))
            \o BStr(KeyPort) \o BInt(pl[5] * 256 + pl[6]) \o << Ch.e >>
            \o PeerDicts(SubSeq(pl, PeerRecordSize + 1, Len(pl)))

Shapes == {"peers_only", "interval_first", "peers_first", "udp", "failure", "no_peers", "peers_int",
           "unterminated", "list"}

ResponseOf(shape, pl) ==
    CASE shape = "peers_only" -> << Ch.d >> \o BStr(KeyPeers) \o BStr(pl) \o << Ch.e >>
      [] shape = "interval_first" ->
            << Ch.d >> \o BStr(KeyInterval) \o BInt(1800) \o BStr(KeyPeers) \o BStr(pl) \o << Ch.e >>
      [] shape = "peers_first" ->
            << Ch.d >> \o BStr(KeyPeers) \o BStr(pl) \o BStr(KeyInterval) \o BInt(1800) \o << Ch.e >>
      [] shape = "udp" -> to_be_bytes(1, 4) \o to_be_bytes(1, 4) \o to_be_bytes(1800, 4)
                            \o to_be_bytes(2, 4) \o to_be_bytes(3, 4) \o pl
      [] shape = "failure" ->
            << Ch.d >> \o BStr(KeyFailureReason) \o BStr(<< 110, 111 >>) \o BStr(KeyPeers) \o BStr(pl)
                \o << Ch.e >>
      [] shape = "no_peers" -> << Ch.d >> \o BStr(KeyInterval) \o BInt(1800) \o << Ch.e >>
      [] shape = "peers_int" -> << Ch.d >> \o BStr(KeyPeers) \o BInt(Len(pl)) \o << Ch.e >>
      [] shape = "unterminated" -> << Ch.d >> \o BStr(KeyPeers) \o BStr(pl)
      [] shape = "list" ->
            << Ch.d >> \o BStr(KeyPeers) \o << Ch.l >> \o PeerDicts(pl) \o << Ch.e >> \o << Ch.e >>

NothingDecoded == [shape |-> "none", torrent_id |-> 0, peer_bytes |-> << >>, res |-> "none", peers |-> << >>]

\* parse_tracker_response on an HTTP tracker's answer
ParseTrackerResponse(torrent_id, shape, pl) ==
    /\ decoded.shape = "none"
    /\ shape # "udp"
    /\ LET r == parse_tracker_response(torrent_id, ResponseOf(shape, pl))
       IN  decoded' = [shape |-> shape, torrent_id |-> torrent_id, peer_bytes |-> pl,
                       res |-> r.res, peers |-> r.peers]
    /\ UNCHANGED << pieces, torrent, files, queue, peers, buffers, sessions, prefetch, last, repo, ingest, udp, trackers, now, announcing, contacted, handshakes, service, choking, peer_store, lookups >>

\* the peer list of udp_announce on a UDP tracker's answer to transaction 1
ParseUdpPeers(torrent_id, pl) ==
    /\ decoded.shape = "none"
    /\ LET r == udp_announce_parse("data", ResponseOf("udp", pl), 1, torrent_id)
       IN  decoded' = [shape |-> "udp", torrent_id |-> torrent_id, peer_bytes |-> pl,
                       res |-> r.res, peers |-> r.peers]
    /\ UNCHANGED << pieces, torrent, files, queue, peers, buffers, sessions, prefetch, last, repo, ingest, udp, trackers, now, announcing, contacted, handshakes, service, choking, peer_store, lookups >>

(* ---------------- tracker scheduling ---------------- *)
TrackerIds == 1 .. NumTrackers

\* Option::None of last_announce and next_announce
NoTime == -1

\* the interval announce_to_trackers passes to mark_announce_success
DefaultInterval == 1800

\* the intervals a tracker's response can carry
ResponseIntervals == {900, 1800}

\* Tracker::new
NewTracker == [status |-> "Active", last_announce |-> NoTime, next_announce |-> NoTime]

\* Tracker::mark_announce_success
mark_announce_success(tr, interval, t) ==
    [tr EXCEPT !.last_announce = t, !.next_announce = t + interval, !.status = "Active"]

\* Tracker::mark_announce_failed
mark_announce_failed(tr) == [tr EXCEPT !.status = "Failed"]

\* Tracker::should_announce
should_announce(tr, t) == IF tr.next_announce # NoTime THEN t >= tr.next_announce ELSE TRUE

\* TrackerRepository::find_active: the rows with status "active", by id
RECURSIVE find_active(_, _)
find_active(trs, from) ==
    IF from > NumTrackers THEN << >>
    ELSE IF trs[from].status = "Active"
         THEN << [id |-> from, row |-> trs[from]] >> \o find_active(trs, from + 1)
         ELSE find_active(trs, from + 1)

AnnounceCalls == {"announce_to_trackers", "perform_periodic_announces"}

IdleAnnounce == [pc |-> "idle", list |-> << >>, cur |-> [id |-> 0, row |-> NewTracker]]

NeverContacted == [status |-> "none", interval |-> 0]

DbOutcomes == {"ok", "save_fails", "update_fails"}

\* the clock moves on
Tick(d) ==
    /\ now + d <= MaxNow
    /\ now' = now + d
    /\ UNCHANGED << pieces, torrent, files, queue, peers, buffers, sessions, prefetch, last, repo, ingest, udp, decoded, trackers, announcing, contacted, handshakes, service, choking, peer_store, lookups >>

\* announce_to_trackers and perform_periodic_announces up to their loop: the
\* trackers to announce to; the periodic call skips a Completed or Paused torrent
StartAnnounce(k) ==
    /\ announcing[k].pc = "idle"
    /\ announcing' = [announcing EXCEPT ![k] =
          [IdleAnnounce EXCEPT !.pc = "loop",
              !.list = IF k = "perform_periodic_announces" /\ torrent.status \in {"Completed", "Paused"}
                       THEN << >> ELSE find_active(trackers, 1)]]
    /\ UNCHANGED << pieces, torrent, files, queue, peers, buffers, sessions, prefetch, last, repo, ingest, udp, decoded, trackers, now, contacted, handshakes, service, choking, peer_store, lookups >>

\* the loop takes the next tracker and calls announce_to_tracker
AnnounceContact(k) ==
    /\ announcing[k].pc = "loop"
    /\ announcing[k].list # << >>
    /\ announcing' = [announcing EXCEPT ![k] =
          [pc |-> "wait", list |-> Tail(announcing[k].list), cur |-> Head(announcing[k].list)]]
    /\ contacted' = [contacted EXCEPT ![Head(announcing[k].list).id] =
          [@ EXCEPT !.status = trackers[Head(announcing[k].list).id].status]]
    /\ UNCHANGED << pieces, torrent, files, queue, peers, buffers, sessions, prefetch, last, repo, ingest, udp, decoded, trackers, now, handshakes, service, choking, peer_store, lookups >>

\* announce_to_tracker returned: the match arms of the two loops
AnnounceResult(k, ok, interval, db) ==
    /\ announcing[k].pc = "wait"
    /\ db = "save_fails" => (ok /\ k = "announce_to_trackers")
    /\ db = "update_fails" => (k = "announce_to_trackers" \/ ~ok)
    /\ ~ok => interval = DefaultInterval
    /\ LET id  == announcing[k].cur.id
           row == announcing[k].cur.row
           new == IF k = "announce_to_trackers"
                  THEN (IF ok THEN mark_announce_success(row, DefaultInterval, now)
                        ELSE mark_announce_failed(row))
                  ELSE (IF ok THEN trackers[id] ELSE [row EXCEPT !.last_announce = now])
           aborts == k = "announce_to_trackers" /\ db # "ok"
       IN  /\ trackers' = IF db = "ok" /\ (k = "announce_to_trackers" \/ ~ok)
                          THEN [trackers EXCEPT ![id] = new] ELSE trackers
           /\ announcing' = [announcing EXCEPT ![k] =
                 IF aborts THEN IdleAnnounce ELSE [@ EXCEPT !.pc = "loop"]]
           /\ contacted' = IF ok THEN [contacted EXCEPT ![id].interval = interval] ELSE contacted
    /\ UNCHANGED << pieces, torrent, files, queue, peers, buffers, sessions, prefetch, last, repo, ingest, udp, decoded, now, handshakes, service, choking, peer_store, lookups >>

\* the loop is through: the call returns
AnnounceReturn(k) ==
    /\ announcing[k].pc = "loop"
    /\ announcing[k].list = << >>
    /\ announcing' = [announcing EXCEPT ![k] = IdleAnnounce]
    /\ UNCHANGED << pieces, torrent, files, queue, peers, buffers, sessions, prefetch, last, repo, ingest, udp, decoded, trackers, now, contacted, handshakes, service, choking, peer_store, lookups >>

(* ---------------- peers returned by trackers ---------------- *)
\* peers one announce returns at most
MaxAnnounced == 2

\* endpoints trackers return for the torrent, and the lists of them one
\* response holds: no endpoint twice in one list
PeerEndpoints == [torrent_id : {1}, ip : {"10.0.0.1", "10.0.0.2"}, port : {6881, 6882}]
AnnouncedLists ==
    {l \in UNION {[1 .. n -> PeerEndpoints] : n \in 0 .. MaxAnnounced} :
        \A j \in DOMAIN l, k \in DOMAIN l : j # k => l[j] # l[k]}

\* the Peers relation is keyed by (torrent_id, ip, port): a second row with
\* the same key is rejected
PeerKeyUnique == TRUE

\* the insert statement of SqlitePeerRepository::save
peer_save(rows, peer) ==
    IF PeerKeyUnique /\ \E k \in 1 .. Len(rows) : rows[k] = peer
    THEN [rows |-> rows, res |-> "RepositoryError"]
    ELSE [rows |-> Append(rows, peer), res |-> "Ok"]

\* SqlitePeerRepository::save_batch: one insert of all rows, which stores
\* all of them or none
RECURSIVE save_batch(_, _)
save_batch(rows, list) ==
    IF list = << >> THEN [rows |-> rows, res |-> "Ok"]
    ELSE LET r == peer_save(rows, Head(list))
             t == save_batch(r.rows, Tail(list))
         IN IF r.res = "Ok" /\ t.res = "Ok" THEN t ELSE [rows |-> rows, res |-> "RepositoryError"]

\* the loop of perform_periodic_announces over the peers: save each, an
\* error is logged
RECURSIVE save_each(_, _)
save_each(rows, list) ==
    IF list = << >> THEN rows ELSE save_each(peer_save(rows, Head(list)).rows, Tail(list))

\* the Ok arm of an announce: announce_to_trackers saves the peers with
\* save_batch and returns its error; perform_periodic_announces saves them
\* one by one
SavePeers(k, list) ==
    /\ peer_store' = IF k = "announce_to_trackers"
                     THEN LET r == save_batch(peer_store.rows, list)
                          IN [rows |-> r.rows, announced |-> list, res |-> r.res]
                     ELSE [rows |-> save_each(peer_store.rows, list), announced |-> list, res |-> "Ok"]
    /\ UNCHANGED << pieces, torrent, files, queue, peers, buffers, sessions, prefetch, last, repo, ingest, udp, decoded, trackers, now, announcing, contacted, handshakes, service, choking, lookups >>

(* ---------------- peer handshake ---------------- *)
\* b"BitTorrent protocol"
ProtocolName == << 66, 105, 116, 84, 111, 114, 114, 101, 110, 116, 32, 112, 114, 111, 116, 111, 99, 111, 108 >>

ProtocolNameLength == 19

HandshakeLength == 68

\* Peer::new, with the handshake answer the peer gave last
NewPeer == [status |-> "Disconnected", path |-> "none", info_hash |-> << >>, response |-> << >>]

\* a handshake message: pstrlen, pstr, reserved, info_hash, peer_id
Handshake(pstrlen, pstr, info_hash_bytes) ==
    << pstrlen >> \o pstr \o [i \in 1 .. 8 |-> 0] \o info_hash_bytes \o [i \in 1 .. 20 |-> 45]

\* the answers a peer can give: right and wrong length byte, protocol name and info hash
HandshakeResponses ==
    { Handshake(n, pstr, ih) :
        n \in {ProtocolNameLength, 18},
        pstr \in {ProtocolName, [ProtocolName EXCEPT ![1] = 98]},
        ih \in {hex_decode(s).bytes : s \in {h \in InfoHashes : hex_decode(h).res = "Ok" /\ Len(h) = 40}}
                \cup {[i \in 1 .. InfoHashBytes |-> 161 - i]} }

TcpOutcomes == {"ok", "timeout", "refused"}

\* PeerService::connect_to_peer: connect, send the handshake, read 68 bytes,
\* validate, send bitfield and interested
connect_to_peer(tcp, info_hash, read_ok, response, write_ok) ==
    LET h == hex_decode(info_hash)
    IN  IF tcp # "ok" THEN "PeerConnectionError"
        ELSE IF h.res # "Ok" THEN "PeerConnectionError"
        ELSE IF Len(h.bytes) # InfoHashBytes THEN "PeerConnectionError"
        ELSE IF ~read_ok THEN "PeerConnectionError"
        ELSE IF response[1] # ProtocolNameLength \/ SubSeq(response, 2, 20) # ProtocolName
             THEN "PeerConnectionError"
        ELSE IF ~write_ok THEN "PeerConnectionError"
        ELSE "Ok"

\* PieceDownloader::perform_handshake
perform_handshake(info_hash, read_ok, response) ==
    LET h == hex_decode(info_hash)
    IN  IF h.res # "Ok" THEN "ParseError"
        ELSE IF ~read_ok THEN "NetworkError"
        ELSE IF response[1] # ProtocolNameLength \/ SubSeq(response, 2, 20) # ProtocolName
             THEN "ValidationError"
        ELSE IF SubSeq(response, 29, 48) # h.bytes THEN "ValidationError"
        ELSE "Ok"

\* connect_to_peers, one turn of its loop: a Disconnected peer is connected
\* to and its row updated with the outcome; each peer is tried once
ConnectToPeers(p, tcp, info_hash, read_ok, response, write_ok) ==
    /\ handshakes[p].status = "Disconnected"
    /\ handshakes[p].path = "none"
    /\ LET r == connect_to_peer(tcp, info_hash, read_ok, response, write_ok)
       IN  handshakes' = [handshakes EXCEPT ![p] =
              [status |-> IF r = "Ok" THEN "Connected" ELSE "Disconnected",
               path |-> "connect_to_peer", info_hash |-> info_hash,
               response |-> IF tcp = "ok" /\ read_ok THEN response ELSE << >>]]
    /\ UNCHANGED << pieces, torrent, files, queue, peers, buffers, sessions, prefetch, last, repo, ingest, udp, decoded, trackers, now, announcing, contacted, service, choking, peer_store, lookups >>

\* download_from_peer up to its loop: connect and perform_handshake; the
\* task goes on to request pieces only when both succeed
DownloaderHandshake(p, tcp, info_hash, read_ok, response) ==
    /\ peers[p].pc = "stopped"
    /\ handshakes[p].path = "none"
    /\ LET r == IF tcp # "ok" THEN "NetworkError" ELSE perform_handshake(info_hash, read_ok, response)
       IN  /\ peers' = [peers EXCEPT ![p] = IF r = "Ok" THEN [@ EXCEPT !.pc = "loop"] ELSE @]
           /\ handshakes' = [handshakes EXCEPT ![p] =
                 [@ EXCEPT !.path = "perform_handshake", !.info_hash = info_hash,
                           !.response = IF tcp = "ok" /\ read_ok THEN response ELSE << >>]]
    /\ UNCHANGED << pieces, torrent, files, queue, buffers, sessions, prefetch, last, repo, ingest, udp, decoded, trackers, now, announcing, contacted, service, choking, peer_store, lookups >>

(* ---------------- torrent status and progress calls ---------------- *)
\* concurrent calls of TorrentService and handle_piece_data
NumCalls == 2
TorrentCalls == 1 .. NumCalls

\* the TorrentService calls that begin with find_by_id
TorrentOps == {"update_progress", "start_download", "pause_torrent", "resume_torrent"}

\* a call that is not running; torrent is the copy of the row a running
\* call holds
IdleCall == [op |-> "none", pc |-> "idle", torrent |-> [status |-> "none", progress |-> 0, file_path |-> "none"]]

\* Torrent::set_status
set_status(t, status) == [t EXCEPT !.status = status]

\* SqliteTorrentRepository::update: writes status, progress and file_path of
\* the object it is handed
torrent_repository_update(row, t) ==
    [row EXCEPT !.status = t.status, !.progress = t.progress, !.file_path = t.file_path]

(* ---------------- buffer lookups ---------------- *)
\* session ids (one session is modelled)
SessionIds == {"s1"}

\* no get_buffered_data call of the session is between its lookups
IdleRead == [pc |-> "idle", start_offset |-> 0, length |-> 0]

(* ---------------- initial state ---------------- *)
\* the call record: operation, its two arguments, result kind, and the
\* payload handed in (completion) or the bytes returned (reads)
Call(op, a, b, res, bytes) == [op |-> op, a |-> a, b |-> b, res |-> res, bytes |-> bytes]

\* where file_path of the torrent row points: unset, into the download
\* directory under the name PieceManager reads, or somewhere else
FilePaths == {"none", "in_dir", "elsewhere"}

\* a torrent ingested with its piece rows; nothing downloaded, no task or
\* session running
Init ==
    /\ pieces = [i \in PieceIdx |-> NewPiece]
    /\ torrent \in {[status |-> "Parsing", progress |-> 0, file_path |-> fp] : fp \in FilePaths}
    /\ files = [dl |-> << >>, other |-> << >>, tmp |-> [i \in PieceIdx |-> << >>]]
    /\ queue = << >>
    /\ peers = [p \in Peers |-> [pc |-> "stopped", piece |-> 0, priority |-> Low]]
    /\ buffers = << >>
    /\ sessions = << >>
    /\ prefetch = {}
    /\ last = Call("none", 0, 0, "Ok", << >>)
    /\ repo = EmptyRepo
    /\ ingest = [t \in IngestTasks |-> IdleIngest]
    /\ udp = IdleUdp
    /\ decoded = NothingDecoded
    /\ trackers = [t \in TrackerIds |-> NewTracker]
    /\ now = 0
    /\ announcing = [k \in AnnounceCalls |-> IdleAnnounce]
    /\ contacted = [t \in TrackerIds |-> NeverContacted]
    /\ handshakes = [p \in Peers |-> NewPeer]
    /\ service = [calls |-> [c \in TorrentCalls |-> IdleCall], verification_failed |-> FALSE]
    /\ choking = [p \in Peers |-> TRUE]
    /\ peer_store = [rows |-> << >>, announced |-> << >>, res |-> "none"]
    /\ lookups = [reads |-> [s \in SessionIds |-> IdleRead], exiting |-> {}]

(* ---------------- piece completion calls ---------------- *)
\* DownloadService::complete_piece called on its own
CompletePiece(i, data) ==
    LET r == complete_piece(pieces, files, torrent, i, data)
    IN /\ pieces' = r.pieces
       /\ files' = r.files
       /\ last' = Call("complete_piece", i, 0, r.res, data)
       /\ UNCHANGED << torrent, queue, peers, buffers, sessions, prefetch, repo, ingest, udp, decoded, trackers, now, announcing, contacted, handshakes, service, choking, peer_store, lookups >>

\* TorrentService::update_progress
UpdateProgress ==
    /\ torrent' = update_progress(torrent, count_downloaded(pieces))
    /\ last' = Call("update_progress", 0, 0, "Ok", << >>)
    /\ UNCHANGED << pieces, files, queue, peers, buffers, sessions, prefetch, repo, ingest, udp, decoded, trackers, now, announcing, contacted, handshakes, service, choking, peer_store, lookups >>

\* TorrentApp::handle_piece_data: complete_piece, and update_progress only
\* when it succeeded
HandlePieceData(i, data) ==
    LET r == complete_piece(pieces, files, torrent, i, data)
    IN /\ pieces' = r.pieces
       /\ files' = r.files
       /\ torrent' = IF r.res = "Ok" THEN update_progress(torrent, count_downloaded(r.pieces)) ELSE torrent
       /\ last' = Call("handle_piece_data", i, 0, r.res, data)
       /\ UNCHANGED << queue, peers, buffers, sessions, prefetch, repo, ingest, udp, decoded, trackers, now, announcing, contacted, handshakes, service, choking, peer_store, lookups >>

\* PieceManager::mark_piece_completed called on its own
MarkPieceCompleted(i, data) ==
    LET r == mark_piece_completed(pieces, i, data)
    IN /\ pieces' = r.pieces
       /\ last' = Call("mark_piece_completed", i, 0, r.res, data)
       /\ UNCHANGED << torrent, files, queue, peers, buffers, sessions, prefetch, repo, ingest, udp, decoded, trackers, now, announcing, contacted, handshakes, service, choking, peer_store, lookups >>

(* ---------------- queue and peer tasks ---------------- *)
\* PieceManager::request_piece called on its own
RequestPiece(i, priority) ==
    /\ Len(queue) < MaxQueue
    /\ queue' = request_piece(queue, i, priority, "api")
    /\ last' = Call("request_piece", i, priority, "Ok", << >>)
    /\ UNCHANGED << pieces, torrent, files, peers, buffers, sessions, prefetch, repo, ingest, udp, decoded, trackers, now, announcing, contacted, handshakes, service, choking, peer_store, lookups >>

\* PieceManager::get_next_piece_request called on its own
GetNextPieceRequest ==
    LET r == get_next_piece_request(queue)
    IN /\ queue' = r.queue
       /\ last' = Call("get_next_piece_request", r.piece_index, r.priority, r.res, << >>)
       /\ UNCHANGED << pieces, torrent, files, peers, buffers, sessions, prefetch, repo, ingest, udp, decoded, trackers, now, announcing, contacted, handshakes, service, choking, peer_store, lookups >>

\* PieceDownloader::start_downloading: one task per peer; the peers in
\* connected complete connect and handshake, the others end with an error;
\* a peer chokes a connection until it sends unchoke
StartDownloading(connected) ==
    /\ \A p \in Peers : peers[p].pc = "stopped"
    /\ peers' = [p \in Peers |-> IF p \in connected THEN [pc |-> "loop", piece |-> 0, priority |-> Low] ELSE peers[p]]
    /\ choking' = [p \in Peers |-> IF p \in connected THEN TRUE ELSE choking[p]]
    /\ UNCHANGED << pieces, torrent, files, queue, buffers, sessions, prefetch, last, repo, ingest, udp, decoded, trackers, now, announcing, contacted, handshakes, service, peer_store, lookups >>

\* download_from_peer, top of the loop: get_next_piece_request pops the
\* front of the queue, or the task ends when the queue is empty
PeerNext(p) ==
    /\ peers[p].pc = "loop"
    /\ IF queue # << >>
       THEN /\ peers' = [peers EXCEPT ![p] = [pc |-> "downloading", piece |-> Head(queue).piece_index, priority |-> Head(queue).priority]]
            /\ queue' = Tail(queue)
       ELSE /\ peers' = [peers EXCEPT ![p] = [pc |-> "stopped", piece |-> 0, priority |-> Low]]
            /\ queue' = queue
    /\ UNCHANGED << pieces, torrent, files, buffers, sessions, prefetch, last, repo, ingest, udp, decoded, trackers, now, announcing, contacted, handshakes, service, choking, peer_store, lookups >>

\* download_piece returned a payload of the piece's length: the task hands
\* it to mark_piece_completed; an error of that call ends the task
PeerPieceOk(p, data) ==
    /\ peers[p].pc = "downloading"
    /\ Len(data) = Len(PieceBytes(peers[p].piece))
    /\ LET r == mark_piece_completed(pieces, peers[p].piece, data)
       IN /\ pieces' = r.pieces
          /\ peers' = [peers EXCEPT ![p] = [pc |-> IF r.res = "Ok" THEN "loop" ELSE "stopped", piece |-> 0, priority |-> Low]]
          /\ last' = Call("mark_piece_completed", peers[p].piece, 0, r.res, data)
    /\ UNCHANGED << torrent, files, queue, buffers, sessions, prefetch, repo, ingest, udp, decoded, trackers, now, announcing, contacted, handshakes, service, choking, peer_store, lookups >>

\* download_piece failed: the task logs it and continues with the next
\* request
PeerPieceErr(p) ==
    /\ peers[p].pc = "downloading"
    /\ peers' = [peers EXCEPT ![p] = [pc |-> "loop", piece |-> 0, priority |-> Low]]
    /\ UNCHANGED << pieces, torrent, files, queue, buffers, sessions, prefetch, last, repo, ingest, udp, decoded, trackers, now, announcing, contacted, handshakes, service, choking, peer_store, lookups >>

\* the remote peer of a running task sends choke or unchoke on the
\* connection; download_from_peer reads no such message
PeerChokes(p, choke) ==
    /\ peers[p].pc # "stopped"
    /\ choking' = [choking EXCEPT ![p] = choke]
    /\ UNCHANGED << pieces, torrent, files, queue, peers, buffers, sessions, prefetch, last, repo, ingest, udp, decoded, trackers, now, announcing, contacted, handshakes, service, peer_store, lookups >>

(* ---------------- read calls ---------------- *)
\* PieceManager::read_piece_data called on its own
ReadPieceData(i) ==
    LET r == read_piece_data(pieces, files, i)
    IN /\ last' = Call("read_piece_data", i, 0, r.res, r.bytes)
       /\ UNCHANGED << pieces, torrent, files, queue, peers, buffers, sessions, prefetch, repo, ingest, udp, decoded, trackers, now, announcing, contacted, handshakes, service, choking, peer_store, lookups >>

\* PieceManager::read_range called on its own, for a range inside the torrent
ReadRange(start_offset, length) ==
    LET r == read_range(pieces, files, queue, start_offset, length)
    IN /\ start_offset + length <= TotalSize
       /\ Len(r.queue) <= MaxQueue
       /\ queue' = r.queue
       /\ last' = Call("read_range", start_offset, length, r.res, r.bytes)
       /\ UNCHANGED << pieces, torrent, files, peers, buffers, sessions, prefetch, repo, ingest, udp, decoded, trackers, now, announcing, contacted, handshakes, service, choking, peer_store, lookups >>


(* ---------------- streaming ---------------- *)
\* default buffer_size_mb of TorrentApp::new
BufferSizeMb == 64

\* SessionBuffer.buffer_ahead_pieces as initialize_session_buffer sets it
\* for a buffer of buffer_size_mb
buffer_ahead_for(buffer_size_mb) == Max((buffer_size_mb * 1024 * 1024) \div PieceLength, 10)

\* SessionBuffer.buffer_ahead_pieces under the default configuration
buffer_ahead_pieces == buffer_ahead_for(BufferSizeMb)

\* the file parse_torrent_files reads at torrent.file_path
FileAtPath(fs, t) == IF t.file_path = "in_dir" THEN fs.dl ELSE IF t.file_path = "elsewhere" THEN fs.other ELSE << >>

\* get_streamable_files succeeds: file_path is set and the file there can be read
StreamableFilesOk(fs, t) == t.file_path # "none" /\ FileAtPath(fs, t) # << >>

\* a function without / with one more key
Without(f, key) == [k \in (DOMAIN f) \ {key} |-> f[k]]
With(f, key, val) == [k \in (DOMAIN f) \cup {key} |-> IF k = key THEN val ELSE f[k]]

\* extract_piece_range returning the whole piece
extract_piece_range_whole(piece_data, piece_offset, range_start, range_length) == piece_data

\* StreamingBuffer::extract_piece_range: the part of the piece inside the range
extract_piece_range(piece_data, piece_offset, range_start, range_length) ==
    LET piece_end == piece_offset + Len(piece_data) - 1
        range_end == range_start + range_length - 1
        extract_start == Max(range_start, piece_offset)
        extract_end == Min(range_end, piece_end)
    IN IF extract_start > extract_end THEN << >>
       ELSE SubSeq(piece_data, (extract_start - piece_offset) + 1, (extract_end - piece_offset) + 1)

\* get_buffered_data, first loop: the data of the needed pieces found in
\* the session's buffer_queue
RECURSIVE buffered_loop(_, _, _, _, _)
buffered_loop(bq, piece_index, end_piece, start_offset, length) ==
    IF piece_index > end_piece THEN << >>
    ELSE LET hit == {k \in 1 .. Len(bq) : bq[k].piece_index = piece_index}
             first == CHOOSE k \in hit : \A j \in hit : k <= j
             part == IF hit = {} THEN << >>
                     ELSE extract_piece_range(bq[first].data, bq[first].offset_in_torrent, start_offset, length)
         IN part \o buffered_loop(bq, piece_index + 1, end_piece, start_offset, length)

\* get_buffered_data, second loop: every needed piece missing from the
\* buffer is requested Urgent and appended if the piece manager can read it
RECURSIVE missing_loop(_, _, _, _, _, _, _, _, _, _)
missing_loop(ps, fs, q, bq, session_id, piece_index, end_piece, start_offset, length, result_data) ==
    IF piece_index > end_piece THEN [bytes |-> result_data, queue |-> q]
    ELSE IF \E k \in 1 .. Len(bq) : bq[k].piece_index = piece_index
    THEN missing_loop(ps, fs, q, bq, session_id, piece_index + 1, end_piece, start_offset, length, result_data)
    ELSE LET rd == read_piece_data(ps, fs, piece_index)
             slice == IF rd.res = "Ok"
                      THEN extract_piece_range(rd.bytes, piece_index * PieceLength, start_offset, length)
                      ELSE << >>
         IN missing_loop(ps, fs, request_piece(q, piece_index, Urgent, session_id), bq, session_id,
                         piece_index + 1, end_piece, start_offset, length, result_data \o slice)

\* update_buffer_position: new position, pieces behind it dropped
update_buffer_position(buf, new_position) ==
    LET current_piece == new_position \div PieceLength
    IN [buf EXCEPT !.current_position = new_position,
                   !.buffer_queue = SelectSeq(buf.buffer_queue, LAMBDA bp : bp.piece_index >= Max(current_piece - 2, 0))]

\* StreamingBuffer::get_buffered_data
get_buffered_data(ps, fs, q, bufs, session_id, start_offset, length) ==
    IF session_id \notin DOMAIN bufs
    THEN [res |-> "NotFound", bytes |-> << >>, queue |-> q, buffers |-> bufs]
    ELSE LET bq == bufs[session_id].buffer_queue
             start_piece == start_offset \div PieceLength
             end_piece == (start_offset + length - 1) \div PieceLength
             found == buffered_loop(bq, start_piece, end_piece, start_offset, length)
             r == missing_loop(ps, fs, q, bq, session_id, start_piece, end_piece, start_offset, length, found)
         IN [res |-> "Ok", bytes |-> r.bytes, queue |-> r.queue,
             buffers |-> [bufs EXCEPT ![session_id] = update_buffer_position(bufs[session_id], start_offset + length)]]

\* StreamRange::new: an absent end is the last byte, an end is clamped to it
StreamRangeNew(start, end, total_size) ==
    [start |-> start, end |-> Min(IF end = -1 THEN Max(total_size - 1, 0) ELSE end, Max(total_size - 1, 0)), total_size |-> total_size]

\* length taking an absent end as total_size
StreamRangeLength_open_total(range) == (IF range.end = -1 THEN range.total_size ELSE range.end) - range.start + 1

\* StreamRange::length
StreamRangeLength(range) == (IF range.end = -1 THEN Max(range.total_size - 1, 0) ELSE range.end) - range.start + 1

\* ranges a client asks for: start inside the file, end = -1 for an open
\* end, otherwise start <= end < file size
Ranges == {r \in [start : 0 .. (TotalSize - 1), end : -1 .. (TotalSize - 1), total_size : {TotalSize}] : r.end = -1 \/ r.start <= r.end}

\* no Range header
NoRange == [start |-> -1, end |-> -1, total_size |-> 0]

\* prioritize_sequential: the first critical pieces Urgent, the rest Normal,
\* each only if not available
RECURSIVE prioritize_loop(_, _, _, _, _, _)
prioritize_loop(ps, q, session_id, piece_index, start_piece, end_piece) ==
    IF piece_index > end_piece THEN q
    ELSE LET priority == IF piece_index <= start_piece + 10 THEN Urgent ELSE Normal
             q1 == IF is_piece_available(ps, piece_index) THEN q ELSE request_piece(q, piece_index, priority, session_id)
         IN prioritize_loop(ps, q1, session_id, piece_index + 1, start_piece, end_piece)

\* StreamPrioritizer::prioritize_sequential
prioritize_sequential(ps, q, file_offset, file_size, session_id) ==
    prioritize_loop(ps, q, session_id, file_offset \div PieceLength, file_offset \div PieceLength, (file_offset + file_size - 1) \div PieceLength)

\* one cycle of the background buffering task: High requests for the
\* pieces ahead of the position that are not available
RECURSIVE prefetch_loop(_, _, _, _, _, _)
prefetch_loop(ps, q, session_id, current_piece, i, buffer_ahead) ==
    IF i >= buffer_ahead \/ current_piece + i >= PieceCount THEN q
    ELSE LET q1 == IF is_piece_available(ps, current_piece + i) THEN q
                   ELSE request_piece(q, current_piece + i, High, session_id)
         IN prefetch_loop(ps, q1, session_id, current_piece, i + 1, buffer_ahead)


\* StreamingServiceImpl::create_stream_session: the session buffer and its
\* background task, the sequential prioritisation, then the session entry
\* with the configured buffer_size_mb; cap bounds the queue of the model
CreateStreamSessionWith(s, buffer_size_mb, cap) ==
    /\ s \notin DOMAIN sessions /\ s \notin DOMAIN buffers /\ s \notin prefetch
    /\ StreamableFilesOk(files, torrent)
    /\ LET q == prioritize_sequential(pieces, queue, 0, TotalSize, s)
       IN /\ Len(q) <= cap
          /\ queue' = q
    /\ buffers' = With(buffers, s, [current_position |-> 0, buffer_queue |-> << >>, buffer_ahead_pieces |-> buffer_ahead_for(buffer_size_mb)])
    /\ prefetch' = prefetch \cup {s}
    /\ sessions' = With(sessions, s, [file_size |-> TotalSize, bytes_served |-> 0])
    /\ last' = Call("create_stream_session", 0, 0, "Ok", << >>)
    /\ UNCHANGED << pieces, torrent, files, peers, repo, ingest, udp, decoded, trackers, now, announcing, contacted, handshakes, service, choking, peer_store, lookups >>

\* create_stream_session under the default configuration
CreateStreamSession(s) == CreateStreamSessionWith(s, BufferSizeMb, MaxQueue)

\* overflow checks of the build: a debug build panics where u64 arithmetic
\* overflows, a release build wraps
Builds == {"debug", "release"}

\* the range check accepting a start equal to the file size
range_start_valid_inclusive(start, file_size) == start <= file_size

\* the range check of stream_content: the start lies inside the file
range_start_valid(start, file_size) == start < file_size

\* the builds that differ on a range: only an end before the start overflows
BuildsFor(range) == IF range.end # -1 /\ range.end < range.start THEN Builds ELSE {"release"}

\* the record of a stream_content call: start and length handed to the
\* buffer, the result, the bytes returned and the end of the range asked for
StreamCall(start, length, res, content, end) ==
    [op |-> "stream_content", a |-> start, b |-> length, res |-> res, bytes |-> content, end |-> end]

\* StreamingServiceImpl::stream_content: a start at or behind the file size
\* is rejected; then get_buffered_data, on its error read_range, on its error
\* no bytes; always Ok once the range is accepted.  An end before the start
\* underflows StreamRange::length: a debug build panics there; in a release
\* build the length wraps, and every later use of it (start + length - 1,
\* start + length) wraps back to the value the integers give
stream_content(ss, bufs, ps, fs, q, s, range, build) ==
    LET file_size == ss[s].file_size
        stream_range == IF range = NoRange THEN StreamRangeNew(0, 1024 * 1024 - 1, file_size) ELSE range
        absolute_start == stream_range.start
        content_length == StreamRangeLength(stream_range)
        g == get_buffered_data(ps, fs, q, bufs, s, absolute_start, content_length)
        f == read_range(ps, fs, g.queue, absolute_start, content_length)
        content == IF g.res = "Ok" THEN g.bytes ELSE IF f.res = "Ok" THEN f.bytes ELSE << >>
        unchanged == [queue |-> q, buffers |-> bufs, sessions |-> ss]
    IN IF ~range_start_valid(stream_range.start, file_size)
       THEN unchanged @@ [call |-> StreamCall(absolute_start, 0, "ValidationError", << >>, stream_range.end)]
       ELSE IF stream_range.end # -1 /\ stream_range.end < stream_range.start /\ build = "debug"
       THEN unchanged @@ [call |-> StreamCall(absolute_start, 0, "panic", << >>, stream_range.end)]
       ELSE [queue |-> IF g.res = "Ok" THEN g.queue ELSE f.queue,
             buffers |-> g.buffers,
             sessions |-> [ss EXCEPT ![s].bytes_served = @ + Len(content)],
             call |-> StreamCall(absolute_start, content_length, "Ok", content, stream_range.end)]

\* stream_content called with any range inside the file
StreamContent(s, range) ==
    /\ s \in DOMAIN sessions
    /\ StreamableFilesOk(files, torrent)
    /\ \E build \in BuildsFor(range) :
          LET r == stream_content(sessions, buffers, pieces, files, queue, s, range, build)
          IN /\ Len(r.queue) <= MaxQueue
             /\ r.sessions[s].bytes_served <= MaxServed
             /\ queue' = r.queue
             /\ buffers' = r.buffers
             /\ sessions' = r.sessions
             /\ last' = r.call
    /\ UNCHANGED << pieces, torrent, files, peers, prefetch, repo, ingest, udp, decoded, trackers, now, announcing, contacted, handshakes, service, choking, peer_store, lookups >>

\* Range headers as parse_range_header passes them on: any start, also at
\* or behind the file size; no end (-1) or any end, also before the start
\* or behind the last byte
RangeHeaders == [start : 0 .. (TotalSize + 1), end : -1 .. (PieceCount * PieceLength), total_size : {TotalSize}]

\* stream_content of a client that reads the session linearly: each range
\* starts where the bytes served so far end; the client may also ask for
\* the rest of the file from a start at or behind the file size
StreamLinear(s, range) ==
    /\ s \in DOMAIN sessions
    /\ StreamableFilesOk(files, torrent)
    /\ \/ (IF range = NoRange THEN 0 ELSE range.start) = sessions[s].bytes_served
       \/ range # NoRange /\ range.start >= sessions[s].file_size /\ range.end = -1
    /\ \E build \in BuildsFor(range) :
          LET r == stream_content(sessions, buffers, pieces, files, queue, s, range, build)
          IN /\ Len(r.queue) <= MaxQueue
             /\ queue' = r.queue
             /\ buffers' = r.buffers
             /\ sessions' = r.sessions
             /\ last' = r.call
    /\ UNCHANGED << pieces, torrent, files, peers, prefetch, repo, ingest, udp, decoded, trackers, now, announcing, contacted, handshakes, service, choking, peer_store, lookups >>

\* the background buffering task of a session, one cycle
PrefetchCycleUpTo(s, cap) ==
    /\ s \in prefetch
    /\ s \in DOMAIN buffers
    /\ LET q == prefetch_loop(pieces, queue, s, buffers[s].current_position \div PieceLength, 0, buffers[s].buffer_ahead_pieces)
       IN /\ Len(q) <= cap
          /\ queue' = q
    /\ UNCHANGED << pieces, torrent, files, peers, buffers, sessions, prefetch, last, repo, ingest, udp, decoded, trackers, now, announcing, contacted, handshakes, service, choking, peer_store, lookups >>

\* one cycle, the queue bounded as everywhere else
PrefetchCycle(s) == PrefetchCycleUpTo(s, MaxQueue)

\* the background buffering task ends: its buffer is gone or was not
\* accessed for 5 minutes; it removes the buffer entry
PrefetchExit(s) ==
    /\ s \in prefetch
    /\ prefetch' = prefetch \ {s}
    /\ buffers' = Without(buffers, s)
    /\ UNCHANGED << pieces, torrent, files, queue, peers, sessions, last, repo, ingest, udp, decoded, trackers, now, announcing, contacted, handshakes, service, choking, peer_store, lookups >>

\* StreamingBuffer::cleanup_inactive_sessions: drops the buffers in idle,
\* those not accessed for 10 minutes; the session table is not touched
CleanupInactiveSessions(idle) ==
    /\ idle \subseteq DOMAIN buffers
    /\ buffers' = [k \in (DOMAIN buffers) \ idle |-> buffers[k]]
    /\ UNCHANGED << pieces, torrent, files, queue, peers, sessions, prefetch, last, repo, ingest, udp, decoded, trackers, now, announcing, contacted, handshakes, service, choking, peer_store, lookups >>

\* StreamingServiceImpl::close_stream_session: removes the session entry,
\* NotFound when there is none; the session's buffer and its background
\* task are not touched
CloseStreamSession(s) ==
    /\ sessions' = IF s \in DOMAIN sessions THEN Without(sessions, s) ELSE sessions
    /\ last' = Call("close_stream_session", 0, 0, IF s \in DOMAIN sessions THEN "Ok" ELSE "NotFound", << >>)
    /\ UNCHANGED << pieces, torrent, files, queue, peers, buffers, prefetch, repo, ingest, udp, decoded, trackers, now, announcing, contacted, handshakes, service, choking, peer_store, lookups >>

(* ---------------- torrent status and progress, step by step ---------------- *)
\* update_progress, start_download, pause_torrent, resume_torrent: the
\* find_by_id (get_torrent) the call begins with
TorrentFindById(c, op) ==
    /\ service.calls[c].pc = "idle"
    /\ service' = [service EXCEPT !.calls[c] = [op |-> op, pc |-> "found", torrent |-> torrent]]
    /\ UNCHANGED << pieces, torrent, files, queue, peers, buffers, sessions, prefetch, last, repo, ingest, udp, decoded, trackers, now, announcing, contacted, handshakes, choking, peer_store, lookups >>

\* handle_piece_data: complete_piece; its error ends the call
HandlePieceDataComplete(c, i, data) ==
    /\ service.calls[c].pc = "idle"
    /\ LET r == complete_piece(pieces, files, torrent, i, data)
       IN /\ pieces' = r.pieces
          /\ files' = r.files
          /\ service' = IF r.res = "Ok"
                        THEN [service EXCEPT !.calls[c] = [IdleCall EXCEPT !.op = "handle_piece_data", !.pc = "completed"]]
                        ELSE [service EXCEPT !.verification_failed = TRUE]
    /\ UNCHANGED << torrent, queue, peers, buffers, sessions, prefetch, last, repo, ingest, udp, decoded, trackers, now, announcing, contacted, handshakes, choking, peer_store, lookups >>

\* handle_piece_data: get_torrent of the update_progress it goes on with
HandlePieceDataGetTorrent(c) ==
    /\ service.calls[c].pc = "completed"
    /\ service' = [service EXCEPT !.calls[c].pc = "found", !.calls[c].torrent = torrent]
    /\ UNCHANGED << pieces, torrent, files, queue, peers, buffers, sessions, prefetch, last, repo, ingest, udp, decoded, trackers, now, announcing, contacted, handshakes, choking, peer_store, lookups >>

\* update_progress: count_downloaded, and Torrent::update_progress on the
\* copy
UpdateProgressCount(c) ==
    /\ service.calls[c].pc = "found"
    /\ service.calls[c].op \in {"update_progress", "handle_piece_data"}
    /\ service' = [service EXCEPT !.calls[c].pc = "counted",
                                  !.calls[c].torrent = update_progress(@, count_downloaded(pieces))]
    /\ UNCHANGED << pieces, torrent, files, queue, peers, buffers, sessions, prefetch, last, repo, ingest, udp, decoded, trackers, now, announcing, contacted, handshakes, choking, peer_store, lookups >>

\* update_progress: the update of the row from the copy
UpdateProgressWrite(c) ==
    /\ service.calls[c].pc = "counted"
    /\ torrent' = torrent_repository_update(torrent, service.calls[c].torrent)
    /\ service' = [service EXCEPT !.calls[c] = IdleCall]
    /\ UNCHANGED << pieces, files, queue, peers, buffers, sessions, prefetch, last, repo, ingest, udp, decoded, trackers, now, announcing, contacted, handshakes, choking, peer_store, lookups >>

\* pause_torrent: set_status(Paused) on the copy and the update of the row
PauseTorrentUpdate(c) ==
    /\ service.calls[c].pc = "found"
    /\ service.calls[c].op = "pause_torrent"
    /\ torrent' = torrent_repository_update(torrent, set_status(service.calls[c].torrent, "Paused"))
    /\ service' = [service EXCEPT !.calls[c] = IdleCall]
    /\ UNCHANGED << pieces, files, queue, peers, buffers, sessions, prefetch, last, repo, ingest, udp, decoded, trackers, now, announcing, contacted, handshakes, choking, peer_store, lookups >>

\* resume_torrent: set_status(Downloading) on the copy and the update of
\* the row
ResumeTorrentUpdate(c) ==
    /\ service.calls[c].pc = "found"
    /\ service.calls[c].op = "resume_torrent"
    /\ torrent' = torrent_repository_update(torrent, set_status(service.calls[c].torrent, "Downloading"))
    /\ service' = [service EXCEPT !.calls[c] = IdleCall]
    /\ UNCHANGED << pieces, files, queue, peers, buffers, sessions, prefetch, last, repo, ingest, udp, decoded, trackers, now, announcing, contacted, handshakes, choking, peer_store, lookups >>

\* start_download: set_status(Connecting) on the copy and the first update;
\* status_read keeps the status find_by_id returned
StartDownloadConnecting(c) ==
    /\ service.calls[c].pc = "found"
    /\ service.calls[c].op = "start_download"
    /\ torrent' = torrent_repository_update(torrent, set_status(service.calls[c].torrent, "Connecting"))
    /\ service' = [service EXCEPT !.calls[c] = [op |-> "start_download", pc |-> "connecting",
                                                torrent |-> set_status(service.calls[c].torrent, "Connecting"),
                                                status_read |-> service.calls[c].torrent.status]]
    /\ UNCHANGED << pieces, files, queue, peers, buffers, sessions, prefetch, last, repo, ingest, udp, decoded, trackers, now, announcing, contacted, handshakes, choking, peer_store, lookups >>

\* start_download: the piece rows exist; without tracker rows the call ends
\* with an error, otherwise set_status(Downloading) on the same copy and the
\* second update
StartDownloadDownloading(c, has_trackers) ==
    /\ service.calls[c].pc = "connecting"
    /\ torrent' = IF has_trackers
                  THEN torrent_repository_update(torrent, set_status(service.calls[c].torrent, "Downloading"))
                  ELSE torrent
    /\ service' = [service EXCEPT !.calls[c] = IdleCall]
    /\ UNCHANGED << pieces, files, queue, peers, buffers, sessions, prefetch, last, repo, ingest, udp, decoded, trackers, now, announcing, contacted, handshakes, choking, peer_store, lookups >>

(* ---------------- get_buffered_data, lookup by lookup ---------------- *)
\* get_buffered_data, the first lookup under the lock: a missing entry ends
\* the call with NotFound, a present one gets last_access and
\* current_position set and the call goes on to calculate_pieces_for_range
GetBufferedDataLookup(s, start_offset, length) ==
    /\ lookups.reads[s].pc = "idle"
    /\ IF s \in DOMAIN buffers
       THEN /\ buffers' = [buffers EXCEPT ![s].current_position = start_offset]
            /\ lookups' = [lookups EXCEPT !.reads[s] = [pc |-> "found", start_offset |-> start_offset, length |-> length]]
            /\ last' = last
       ELSE /\ last' = Call("get_buffered_data", start_offset, length, "NotFound", << >>)
            /\ UNCHANGED << buffers, lookups >>
    /\ UNCHANGED << pieces, torrent, files, queue, peers, sessions, prefetch, repo, ingest, udp, decoded, trackers, now, announcing, contacted, handshakes, service, choking, peer_store >>

\* get_buffered_data, the second lookup under the lock and the rest of the
\* call: buffers.get(session_id).unwrap() panics when the entry is gone
GetBufferedDataUnwrap(s) ==
    /\ lookups.reads[s].pc = "found"
    /\ IF s \notin DOMAIN buffers
       THEN /\ lookups' = [lookups EXCEPT !.reads[s].pc = "panicked"]
            /\ UNCHANGED << queue, buffers, last >>
       ELSE LET r == get_buffered_data(pieces, files, queue, buffers, s, lookups.reads[s].start_offset, lookups.reads[s].length)
            IN /\ Len(r.queue) <= MaxQueue
               /\ queue' = r.queue
               /\ buffers' = r.buffers
               /\ last' = Call("get_buffered_data", lookups.reads[s].start_offset, lookups.reads[s].length, r.res, r.bytes)
               /\ lookups' = [lookups EXCEPT !.reads[s] = IdleRead]
    /\ UNCHANGED << pieces, torrent, files, peers, sessions, prefetch, repo, ingest, udp, decoded, trackers, now, announcing, contacted, handshakes, service, choking, peer_store >>

\* the background buffering task finds, under the lock, its buffer gone or
\* not accessed for 5 minutes and leaves its loop; a call between its
\* lookups has accessed the buffer just now
PrefetchBreak(s) ==
    /\ s \in prefetch
    /\ s \notin lookups.exiting
    /\ s \notin DOMAIN buffers \/ lookups.reads[s].pc # "found"
    /\ lookups' = [lookups EXCEPT !.exiting = @ \cup {s}]
    /\ UNCHANGED << pieces, torrent, files, queue, peers, buffers, sessions, prefetch, last, repo, ingest, udp, decoded, trackers, now, announcing, contacted, handshakes, service, choking, peer_store >>

\* the task, out of its loop, takes the lock again and removes the entry
PrefetchRemove(s) ==
    /\ s \in lookups.exiting
    /\ prefetch' = prefetch \ {s}
    /\ buffers' = Without(buffers, s)
    /\ lookups' = [lookups EXCEPT !.exiting = @ \ {s}]
    /\ UNCHANGED << pieces, torrent, files, queue, peers, sessions, last, repo, ingest, udp, decoded, trackers, now, announcing, contacted, handshakes, service, choking, peer_store >>

(* ---------------- removal ---------------- *)
\* the Pieces, Trackers and Peers tables reference Torrents with cascade
\* delete
CascadeDelete == TRUE

\* the rows of a table that do not belong to the torrent
rows_not_of(rows, torrent_id) == SelectSeq(rows, LAMBDA row : row.torrent_id # torrent_id)

\* SqliteTorrentRepository::delete: deletes the row of the torrents table
delete_torrent(r, torrent_id) ==
    [torrents |-> SelectSeq(r.torrents, LAMBDA row : row.id # torrent_id),
     trackers |-> IF CascadeDelete THEN rows_not_of(r.trackers, torrent_id) ELSE r.trackers,
     pieces |-> IF CascadeDelete THEN rows_not_of(r.pieces, torrent_id) ELSE r.pieces]

\* find_by_id finds the torrent; the torrent with id 1 is the one whose row,
\* files, queue, sessions and buffers the variables torrent, files, queue,
\* sessions and buffers hold
stored(r, torrent_id) == \E k \in 1 .. Len(r.torrents) : r.torrents[k].id = torrent_id

\* TorrentService::remove_torrent: find_by_id, the removal of the file at
\* file_path when delete_files is set, and the delete of the torrents row
RemoveTorrent(torrent_id, delete_files) ==
    /\ IF ~stored(repo, torrent_id)
       THEN /\ last' = Call("remove_torrent", torrent_id, 0, "TorrentNotFound", << >>)
            /\ UNCHANGED << files, repo, peer_store >>
       ELSE /\ files' = IF ~delete_files THEN files
                        ELSE IF torrent.file_path = "in_dir" THEN [files EXCEPT !.dl = << >>]
                        ELSE IF torrent.file_path = "elsewhere" THEN [files EXCEPT !.other = << >>]
                        ELSE files
            /\ repo' = delete_torrent(repo, torrent_id)
            /\ peer_store' = [peer_store EXCEPT !.rows = IF CascadeDelete THEN rows_not_of(@, torrent_id) ELSE @]
            /\ last' = Call("remove_torrent", torrent_id, 0, "Ok", << >>)
    /\ UNCHANGED << pieces, torrent, queue, peers, buffers, sessions, prefetch, ingest, udp, decoded, trackers, now, announcing, contacted, handshakes, service, choking, lookups >>

(* ---------------- specifications ---------------- *)
\* piece lifecycle and progress: every call that changes a piece row or
\* the torrent row
Next ==
    \/ \E i \in PieceIdx, data \in DataSet : CompletePiece(i, data)
    \/ UpdateProgress
    \/ \E i \in PieceIdx, data \in DataSet : HandlePieceData(i, data)
    \/ \E i \in PieceIdx, data \in DataSet : MarkPieceCompleted(i, data)

Spec == Init /\ [][Next]_vars

\* the piece store: both completion paths and the two read calls
NextReads ==
    \/ \E i \in PieceIdx, data \in DataSet : CompletePiece(i, data)
    \/ \E i \in PieceIdx, data \in DataSet : MarkPieceCompleted(i, data)
    \/ \E i \in PieceIdx : ReadPieceData(i)
    \/ \E a \in 0 .. (TotalSize - 1), n \in 1 .. TotalSize : ReadRange(a, n)

SpecReads == Init /\ [][NextReads]_vars

\* the request queue and the peer tasks that drain it
NextQueue ==
    \/ \E i \in PieceIdx, priority \in Priorities : RequestPiece(i, priority)
    \/ \E connected \in (SUBSET Peers) \ {{}} : StartDownloading(connected)
    \/ \E p \in Peers : PeerNext(p)
    \/ \E p \in Peers, data \in DataSet : PeerPieceOk(p, data)
    \/ \E p \in Peers : PeerPieceErr(p)

SpecQueue == Init /\ [][NextQueue]_vars

\* the request queue alone: its two operations in any interleaving
NextOrder ==
    \/ \E i \in PieceIdx, priority \in Priorities : RequestPiece(i, priority)
    \/ GetNextPieceRequest

SpecOrder == Init /\ [][NextOrder]_vars

\* concurrent ingest calls over the shared repositories
NextIngest ==
    \/ \E t \in IngestTasks, f \in TorrentFiles : AddTorrentFromFile(t, f)
    \/ \E t \in IngestTasks, f \in TorrentFiles : AddTorrent(t, f)
    \/ \E t \in IngestTasks, ok \in BOOLEAN : IngestCheck(t, ok)
    \/ \E t \in IngestTasks, ok \in BOOLEAN : IngestInsert(t, ok)
    \/ \E t \in IngestTasks, ok \in BOOLEAN : IngestSelect(t, ok)
    \/ \E t \in IngestTasks, ok \in BOOLEAN : IngestTrackers(t, ok)
    \/ \E t \in IngestTasks, ok \in BOOLEAN : IngestPiecesFind(t, ok)
    \/ \E t \in IngestTasks, ok \in BOOLEAN : IngestPiecesSave(t, ok)

SpecIngest == Init /\ [][NextIngest]_vars

\* a stream session read linearly while pieces arrive and the queue drains;
\* the session's buffer stays in place
NextLinear ==
    \/ \E i \in PieceIdx : \E data \in {PieceBytes(i), CorruptBytes(i)} : CompletePiece(i, data)
    \/ \E s \in SessionIds : CreateStreamSession(s)
    \/ \E s \in SessionIds, range \in RangeHeaders \cup {NoRange} : StreamLinear(s, range)
    \/ GetNextPieceRequest

SpecLinear == Init /\ [][NextLinear]_vars

\* a stream session that is created and never accessed, while pieces
\* arrive: time passes, so the prefetch task sees the session idle and ends
\* (weak fairness of PrefetchExit); every other step is scheduled as well
NextIdle ==
    \/ \E i \in PieceIdx, data \in DataSet : CompletePiece(i, data)
    \/ \E s \in SessionIds : CreateStreamSession(s)
    \/ \E s \in SessionIds : PrefetchCycle(s)
    \/ \E s \in SessionIds : PrefetchExit(s)
    \/ \E idle \in SUBSET SessionIds : CleanupInactiveSessions(idle)

SpecIdle ==
    /\ Init
    /\ [][NextIdle]_vars
    /\ WF_vars(NextIdle)
    /\ \A s \in SessionIds : WF_vars(PrefetchExit(s))
    /\ WF_vars(\E idle \in SUBSET SessionIds : CleanupInactiveSessions(idle))

\* a stream session over a torrent whose pieces arrive through complete_piece
NextStream ==
    \/ \E i \in PieceIdx, data \in DataSet : CompletePiece(i, data)
    \/ \E s \in SessionIds : CreateStreamSession(s)
    \/ \E s \in SessionIds, range \in Ranges \cup {NoRange} : StreamContent(s, range)
    \/ \E s \in SessionIds : PrefetchCycle(s)
    \/ \E s \in SessionIds : PrefetchExit(s)

SpecStream == Init /\ [][NextStream]_vars

\* a stream session that is created, read and closed while its background
\* task runs and peer tasks take requests from the queue; the closed
\* session is not accessed any more, so its task sees it idle and ends
\* (weak fairness of PrefetchExit)
NextClose ==
    \/ \E i \in PieceIdx : CompletePiece(i, PieceBytes(i))
    \/ \E s \in SessionIds : CreateStreamSession(s)
    \/ \E s \in SessionIds : StreamContent(s, NoRange)
    \/ \E s \in SessionIds : PrefetchCycle(s)
    \/ \E s \in SessionIds : PrefetchExit(s)
    \/ \E s \in SessionIds : CloseStreamSession(s)
    \/ \E connected \in (SUBSET Peers) \ {{}} : StartDownloading(connected)
    \/ \E p \in Peers : PeerNext(p)

SpecClose ==
    /\ Init
    /\ [][NextClose]_vars
    /\ \A s \in SessionIds : WF_vars(PrefetchExit(s))

\* handle_piece_data, update_progress, start_download, pause_torrent and
\* resume_torrent running concurrently, each one database call at a time
NextProgress ==
    \/ \E c \in TorrentCalls, op \in TorrentOps : TorrentFindById(c, op)
    \/ \E c \in TorrentCalls, i \in PieceIdx : \E data \in {PieceBytes(i), CorruptBytes(i)} : HandlePieceDataComplete(c, i, data)
    \/ \E c \in TorrentCalls : HandlePieceDataGetTorrent(c)
    \/ \E c \in TorrentCalls : UpdateProgressCount(c)
    \/ \E c \in TorrentCalls : UpdateProgressWrite(c)
    \/ \E c \in TorrentCalls : PauseTorrentUpdate(c)
    \/ \E c \in TorrentCalls : ResumeTorrentUpdate(c)
    \/ \E c \in TorrentCalls : StartDownloadConnecting(c)
    \/ \E c \in TorrentCalls, has_trackers \in BOOLEAN : StartDownloadDownloading(c, has_trackers)

SpecProgress == Init /\ [][NextProgress]_vars

\* peer tasks draining the queue while their peers choke and unchoke
NextChoke ==
    \/ \E i \in PieceIdx : RequestPiece(i, Normal)
    \/ \E connected \in (SUBSET Peers) \ {{}} : StartDownloading(connected)
    \/ \E p \in Peers : PeerNext(p)
    \/ \E p \in Peers : PeerPieceOk(p, PieceBytes(peers[p].piece))
    \/ \E p \in Peers : PeerPieceErr(p)
    \/ \E p \in Peers, choke \in BOOLEAN : PeerChokes(p, choke)

SpecChoke == Init /\ [][NextChoke]_vars

\* announces that succeed one after another, each returning a list of
\* peers that may overlap with the peers stored already
NextPeers ==
    \E k \in AnnounceCalls, list \in AnnouncedLists : SavePeers(k, list)

SpecPeers == Init /\ [][NextPeers]_vars

\* one UDP announce after another
NextUdp ==
    \/ \E url_ok \in BOOLEAN, bind_ok \in BOOLEAN, send_ok \in BOOLEAN, torrent_id \in TrackerTorrentIds,
          info_hash \in InfoHashes, txn \in TxnIds :
            UdpTrackerAnnounce(url_ok, bind_ok, send_ok, torrent_id, info_hash, txn)
    \/ \E ev \in RecvEvents, d \in Datagrams, send_ok \in BOOLEAN, txn \in TxnIds :
            UdpConnectReceive(ev, d, send_ok, txn)
    \/ \E ev \in RecvEvents, d \in Datagrams : UdpAnnounceReceive(ev, d)

SpecUdp == Init /\ [][NextUdp]_vars

\* tracker responses decoded one after another
NextDecode ==
    \/ \E torrent_id \in TrackerTorrentIds, shape \in Shapes, pl \in PeerStrings :
            ParseTrackerResponse(torrent_id, shape, pl)
    \/ \E torrent_id \in TrackerTorrentIds, pl \in PeerStrings : ParseUdpPeers(torrent_id, pl)

SpecDecode == Init /\ [][NextDecode]_vars

\* the two announce calls, side by side, as time passes
NextTracker ==
    \/ Tick(DefaultInterval)
    \/ \E k \in AnnounceCalls : StartAnnounce(k)
    \/ \E k \in AnnounceCalls : AnnounceContact(k)
    \/ \E k \in AnnounceCalls, ok \in BOOLEAN, interval \in ResponseIntervals, db \in DbOutcomes :
            AnnounceResult(k, ok, interval, db)
    \/ \E k \in AnnounceCalls : AnnounceReturn(k)

SpecTracker == Init /\ [][NextTracker]_vars

\* the announce calls made again and again, each of their steps eventually taken
NextRetry ==
    \/ Tick(DefaultInterval)
    \/ \E k \in AnnounceCalls : StartAnnounce(k)
    \/ \E k \in AnnounceCalls : AnnounceContact(k)
    \/ \E k \in AnnounceCalls, ok \in BOOLEAN : AnnounceResult(k, ok, DefaultInterval, "ok")
    \/ \E k \in AnnounceCalls : AnnounceReturn(k)

SpecRetry ==
    /\ Init
    /\ [][NextRetry]_vars
    /\ WF_vars(Tick(DefaultInterval))
    /\ \A k \in AnnounceCalls :
          /\ WF_vars(StartAnnounce(k))
          /\ WF_vars(AnnounceContact(k))
          /\ WF_vars(\E ok \in BOOLEAN : AnnounceResult(k, ok, DefaultInterval, "ok"))
          /\ WF_vars(AnnounceReturn(k))

\* peers being connected to, by connect_to_peers and by the download tasks
NextHandshake ==
    \/ \E p \in Peers, info_hash \in InfoHashes, response \in HandshakeResponses, write_ok \in BOOLEAN :
            ConnectToPeers(p, "ok", info_hash, TRUE, response, write_ok)
    \/ \E p \in Peers, tcp \in TcpOutcomes, info_hash \in InfoHashes, read_ok \in BOOLEAN :
            /\ tcp = "ok" => ~read_ok
            /\ ConnectToPeers(p, tcp, info_hash, read_ok, Handshake(ProtocolNameLength, ProtocolName, << >>), TRUE)
    \/ \E p \in Peers, info_hash \in InfoHashes, response \in HandshakeResponses :
            DownloaderHandshake(p, "ok", info_hash, TRUE, response)
    \/ \E p \in Peers, tcp \in TcpOutcomes, info_hash \in InfoHashes, read_ok \in BOOLEAN :
            /\ tcp = "ok" => ~read_ok
            /\ DownloaderHandshake(p, tcp, info_hash, read_ok, Handshake(ProtocolNameLength, ProtocolName, << >>))
    \/ \E p \in Peers : PeerNext(p)

SpecHandshake == Init /\ [][NextHandshake]_vars

\* removal of the torrent with id 1 once no ingest is in flight, with
\* requests, stored peers and a stream session
NextRemove ==
    \/ \E f \in TorrentFiles : AddTorrentFromFile(1, f)
    \/ IngestCheck(1, TRUE)
    \/ IngestInsert(1, TRUE)
    \/ IngestSelect(1, TRUE)
    \/ IngestTrackers(1, TRUE)
    \/ IngestPiecesFind(1, TRUE)
    \/ IngestPiecesSave(1, TRUE)
    \/ \E i \in PieceIdx : stored(repo, 1) /\ RequestPiece(i, Normal)
    \/ \E i \in PieceIdx : stored(repo, 1) /\ CompletePiece(i, PieceBytes(i))
    \/ \E s \in SessionIds : stored(repo, 1) /\ CreateStreamSession(s)
    \/ \E list \in AnnouncedLists : stored(repo, 1) /\ peer_store.announced = << >> /\ Len(list) = 1 /\ SavePeers("perform_periodic_announces", list)
    \/ \E delete_files \in BOOLEAN : ingest[1].pc \in {"idle", "done"} /\ RemoveTorrent(1, delete_files)

SpecRemove == Init /\ [][NextRemove]_vars

\* pause and resume of the torrent by one caller while announces and the
\* download task of one peer run
NextPause ==
    \/ \E op \in {"pause_torrent", "resume_torrent"} : TorrentFindById(1, op)
    \/ PauseTorrentUpdate(1)
    \/ ResumeTorrentUpdate(1)
    \/ \E i \in PieceIdx : queue = << >> /\ RequestPiece(i, Normal)
    \/ StartDownloading({1})
    \/ PeerNext(1)
    \/ PeerPieceOk(1, PieceBytes(peers[1].piece))
    \/ \E k \in AnnounceCalls : StartAnnounce(k)
    \/ \E k \in AnnounceCalls : AnnounceContact(k)
    \/ \E k \in AnnounceCalls : AnnounceResult(k, TRUE, DefaultInterval, "ok")
    \/ \E k \in AnnounceCalls : AnnounceReturn(k)

SpecPause == Init /\ [][NextPause]_vars

\* a stream session and its background buffering task, cycle after cycle,
\* under a small and under the default buffer size
NextPrefetch ==
    \/ \E i \in PieceIdx : CompletePiece(i, PieceBytes(i))
    \/ \E s \in SessionIds, buffer_size_mb \in {0, BufferSizeMb} :
            CreateStreamSessionWith(s, buffer_size_mb, MaxPrefetchQueue)
    \/ \E s \in SessionIds : PrefetchCycleUpTo(s, MaxPrefetchQueue)
    \/ \E s \in SessionIds : PrefetchExit(s)

SpecPrefetch == Init /\ [][NextPrefetch]_vars

\* get_buffered_data calls of a session against its background buffering
\* task and cleanup_inactive_sessions; cleanup drops no buffer a call has
\* accessed just now (its threshold is 10 minutes)
NextLookup ==
    \/ \E i \in PieceIdx : CompletePiece(i, PieceBytes(i))
    \/ \E s \in SessionIds : CreateStreamSession(s)
    \/ \E s \in SessionIds, start_offset \in 0 .. (TotalSize - 1), length \in 1 .. PieceLength :
            GetBufferedDataLookup(s, start_offset, length)
    \/ \E s \in SessionIds : GetBufferedDataUnwrap(s)
    \/ \E s \in SessionIds : PrefetchBreak(s)
    \/ \E s \in SessionIds : PrefetchRemove(s)
    \/ \E idle \in SUBSET {s \in SessionIds : lookups.reads[s].pc = "idle"} :
            idle # {} /\ CleanupInactiveSessions(idle)

SpecLookup == Init /\ [][NextLookup]_vars

(* ---------------- properties ---------------- *)
\* the last call was a completion call (either path) for piece last.a whose
\* payload last.bytes does not hash to the expected hash
CompletionCalls == {"complete_piece", "handle_piece_data", "mark_piece_completed"}
HashMismatch(c) == c.op \in CompletionCalls /\ Sha1(c.bytes) # Sha1(PieceBytes(c.a))

\* pieces overlapping the byte range [start, start + length)
PiecesOfRange(start, length) == {i \in PieceIdx : i * PieceLength < start + length /\ start < i * PieceLength + Len(PieceBytes(i))}

\* the slice [start, start + length) of the logical content
ContentSlice(start, length) == SubSeq(Content, start + 1, start + length)

\* the file holding the torrent's data: the one at file_path, else the one
\* the piece manager reads
BackingFile == IF torrent.file_path = "elsewhere" THEN files.other ELSE files.dl

\* the bytes of the backing file at the offset of piece i (fewer when the
\* file ends before)
StoredBytes(i) == SubSeq(BackingFile, i * PieceLength + 1, Min(i * PieceLength + Len(PieceBytes(i)), Len(BackingFile)))

\* C1: every piece satisfies verified => downloaded, and after a completion
\* call (complete_piece or mark_piece_completed) whose data fails the hash
\* check the piece has downloaded = false and verified = false
C1_VerifiedImpliesDownloadedAndRevert ==
    /\ \A i \in PieceIdx : pieces[i].verified => pieces[i].downloaded
    /\ HashMismatch(last) => ~pieces[last.a].downloaded /\ ~pieces[last.a].verified

\* C2: for every verified piece the bytes stored at piece_index * piece_length
\* of the backing file hash to the piece's expected hash
C2_VerifiedBytesStored ==
    \A i \in PieceIdx : pieces[i].verified => HexEncode(Sha1(StoredBytes(i))) = ExpectedHash(i)

\* C3: the pending-request queue holds no request for a verified piece
C3_NoVerifiedPieceQueued ==
    \A k \in 1 .. Len(queue) : ~(queue[k].piece_index \in PieceIdx /\ pieces[queue[k].piece_index].verified)

\* C4: no two peer tasks are downloading the same piece index at the same
\* time (the code has no endgame mode that would permit it)
C4_NoDuplicateDownload ==
    \A p1 \in Peers, p2 \in Peers :
        p1 # p2 /\ peers[p1].pc = "downloading" /\ peers[p2].pc = "downloading" => peers[p1].piece # peers[p2].piece

\* C5: a range read through stream_content completes successfully only when
\* every piece of the range is verified, and then returns exactly the bytes
\* of the requested range
C5_StreamReadCompleteAndExact ==
    last.op = "stream_content" /\ last.res = "Ok" =>
        /\ \A i \in PiecesOfRange(last.a, last.b) : pieces[i].verified
        /\ last.bytes = ContentSlice(last.a, last.b)

\* C6: a completion call with bytes that fail the hash check returns
\* PieceVerificationFailed on every path, writes nothing to the files, leaves
\* the piece Missing and leaves the stored progress unchanged
C6_MismatchRejected ==
    [][HashMismatch(last') /\ last' # last =>
        /\ last'.res = "PieceVerificationFailed"
        /\ files' = files
        /\ ~pieces'[last'.a].downloaded /\ ~pieces'[last'.a].verified
        /\ torrent'.progress = torrent.progress]_vars

Written(i) ==
    IF torrent.file_path = "none" THEN files.tmp[i] = PieceBytes(i)
    ELSE Len(BackingFile) >= i * PieceLength + Len(PieceBytes(i)) /\ StoredBytes(i) = PieceBytes(i)

\* C8: once complete_piece has accepted and written piece P, read_piece_data(P)
\* returns the bytes written, and once P and P+1 are both accepted a
\* read_range across their boundary returns the concatenation, whether or
\* not the torrent has a file_path
C8_WriteReadRoundTrip ==
    /\ last.op = "read_piece_data" /\ Written(last.a) /\ pieces[last.a].verified =>
           last.res = "Ok" /\ last.bytes = PieceBytes(last.a)
    /\ last.op = "read_range" /\ Cardinality(PiecesOfRange(last.a, last.b)) >= 2
         /\ (\A i \in PiecesOfRange(last.a, last.b) : Written(i) /\ pieces[i].verified) =>
           last.res = "Ok" /\ last.bytes = ContentSlice(last.a, last.b)

\* C9: read_range returns bytes only when every piece of the range is
\* verified, and then exactly the requested slice of the content; when a
\* required piece is not verified it returns an error and no bytes
C9_ReadRangeExactOrError ==
    last.op = "read_range" =>
        /\ last.res = "Ok" =>
              /\ \A i \in PiecesOfRange(last.a, last.b) : pieces[i].verified
              /\ Len(last.bytes) = last.b
              /\ last.bytes = ContentSlice(last.a, last.b)
        /\ (\E i \in PiecesOfRange(last.a, last.b) : ~pieces[i].verified) =>
              last.res = "NotFound" /\ last.bytes = << >>

\* C10: the queue holds at most one entry per piece index
C10_OneEntryPerPiece ==
    \A j \in 1 .. Len(queue), k \in 1 .. Len(queue) : j # k => queue[j].piece_index # queue[k].piece_index

\* the queue is ordered by priority, highest first
Sorted(q) == \A j \in 1 .. Len(q), k \in 1 .. Len(q) : j < k => q[j].priority >= q[k].priority

\* C11: after every request_piece / get_next_piece_request the queue is
\* ordered by priority descending; request_piece puts the new request behind
\* every queued request of the same or a higher priority and before every
\* lower one, keeping the order of the others (insertion order within a
\* priority); get_next_piece_request returns the front request, which has
\* the highest priority present, and removes only it
C11_PriorityThenFifo ==
    [][/\ Sorted(queue')
       /\ Len(queue') = Len(queue) + 1 =>
             \E pos \in 1 .. Len(queue') :
                /\ queue = SubSeq(queue', 1, pos - 1) \o SubSeq(queue', pos + 1, Len(queue'))
                /\ queue'[pos].piece_index = last'.a /\ queue'[pos].priority = last'.b
                /\ \A j \in 1 .. (pos - 1) : queue'[j].priority >= last'.b
                /\ \A j \in (pos + 1) .. Len(queue') : queue'[j].priority < last'.b
       /\ last'.op = "get_next_piece_request" /\ queue # << >> =>
             /\ last'.res = "Some"
             /\ last'.a = queue[1].piece_index /\ last'.b = queue[1].priority
             /\ \A k \in 1 .. Len(queue) : queue[k].priority <= last'.b
             /\ queue' = Tail(queue)]_vars

\* C11 witness: get_next_piece_request returned the earlier of two requests
\* of the highest priority while a request of lower priority is queued
C11_Witness ==
    /\ last.op = "get_next_piece_request" /\ last.res = "Some"
    /\ Len(queue) >= 2
    /\ queue[1].priority = last.b /\ queue[1].piece_index # last.a
    /\ queue[2].priority < queue[1].priority

\* the pieces the remote peer p advertises in its bitfield: every peer lacks
\* one piece, and each piece is held by some peer
Bitfield(p) == PieceIdx \ {p % PieceCount}

\* C12: a peer task downloads a piece only from a peer whose advertised
\* bitfield contains that piece
C12_AssignedOnlyToHolder ==
    \A p \in Peers : peers[p].pc = "downloading" => peers[p].piece \in Bitfield(p)

\* C13: when the download of a piece from a peer fails (the task leaves
\* "downloading" without the piece being verified and goes on), the request
\* is reclaimed: a request for that piece is in the queue afterwards, and no
\* queued request has disappeared
C13_FailedRequestReclaimed ==
    [][\A p \in Peers :
          peers[p].pc = "downloading" /\ peers'[p].pc = "loop" /\ ~pieces'[peers[p].piece].verified =>
              /\ \E k \in 1 .. Len(queue') : queue'[k].piece_index = peers[p].piece
              /\ Len(queue') >= Len(queue)]_vars

IdsOf(f) == {repo.torrents[k].id : k \in {j \in 1 .. Len(repo.torrents) : repo.torrents[j].info_hash = f.info_hash}}

\* C15: when add_torrent_from_file has returned Ok the tables hold the
\* torrent, exactly its piece_count piece rows with indices 0 .. piece_count-1,
\* none downloaded or verified, and a tracker row for its announce URL; when
\* it has returned an error the call has written nothing
C15_IngestAllOrNothing ==
    \A t \in IngestTasks :
        ingest[t].pc = "done" /\ ingest[t].kind = "file" =>
            /\ ingest[t].res = "Ok" =>
                  \E id \in IdsOf(ingest[t].file) :
                     /\ pieces_of(repo, id) = NewPieceRows(id, ingest[t].file)
                     /\ \A u \in 1 .. Len(ingest[t].file.urls) :
                           \E k \in 1 .. Len(repo.trackers) :
                              repo.trackers[k] = [torrent_id |-> id, url |-> ingest[t].file.urls[u]]
            /\ ingest[t].res # "Ok" => ingest[t].wrote = 0

\* C16: in a session read linearly, with any end value in the Range header,
\* bytes_served never exceeds file_size and no stream_content response is
\* longer than file_size - start
C16_LinearReadBounded ==
    /\ \A s \in DOMAIN sessions : sessions[s].bytes_served <= sessions[s].file_size
    /\ last.op = "stream_content" /\ last.res = "Ok" => Len(last.bytes) <= TotalSize - last.a

\* C16 witness: a later range of a linear read (start > 0) whose end lies
\* behind the last byte was answered and the session has served the whole
\* file
C16_Witness ==
    /\ last.op = "stream_content" /\ last.res = "Ok"
    /\ last.a > 0 /\ last.end >= TotalSize /\ Len(last.bytes) > 0
    /\ \E s \in DOMAIN sessions : sessions[s].bytes_served = sessions[s].file_size

\* C17: stream_content with a range whose start is at or behind the file
\* size returns an error and no bytes and leaves the sessions (bytes_served)
\* and the piece-request queue unchanged
C17_UnsatisfiableRangeRejected ==
    [][last'.op = "stream_content" /\ last'.a >= TotalSize =>
          /\ last'.res = "ValidationError" /\ last'.bytes = << >>
          /\ sessions' = sessions
          /\ queue' = queue]_vars

\* C17 witness: a session that has served bytes, with requests queued, was
\* asked for a range starting at the file size and answered with the error
C17_Witness ==
    /\ last.op = "stream_content" /\ last.res = "ValidationError" /\ last.a = TotalSize
    /\ queue # << >>
    /\ \E s \in DOMAIN sessions : sessions[s].bytes_served > 0

\* C18: for a range with an open end and a start inside the file, the
\* length stream_content asks the buffer for is file_size - start
C18_OpenEndToLastByte ==
    last.op = "stream_content" /\ last.end = -1 /\ last.a < TotalSize =>
        last.res = "Ok" /\ last.b = TotalSize - last.a

\* C18 witness: an open-ended range starting inside the file behind byte 0
\* was served up to the last byte
C18_Witness ==
    /\ last.op = "stream_content" /\ last.end = -1 /\ last.res = "Ok"
    /\ last.a > 0 /\ last.a < TotalSize
    /\ Len(last.bytes) = TotalSize - last.a

\* C19: a session that was created and is not accessed any more is
\* eventually no longer listed by get_active_sessions (the session table)
\* and its background prefetch task has terminated
C19_IdleSessionExpires ==
    \A s \in SessionIds : (s \in DOMAIN sessions) ~> (s \notin DOMAIN sessions /\ s \notin prefetch)

\* a packet the client sent whose action field is 1 (announce)
IsAnnouncePacket(p) == Len(p) >= 16 /\ SubSeq(p, 9, 12) = << 0, 0, 0, 1 >>

C21_MismatchDiscarded ==
    [][(/\ udp.pc \in {"connect", "announce"}
        /\ Len(udp'.received) = Len(udp.received) + 1
        /\ Len(udp'.received[Len(udp'.received)]) >= 8
        /\ from_be_bytes(SubSeq(udp'.received[Len(udp'.received)], 5, 8)) # udp.transaction_id)
       => (udp'.pc = udp.pc /\ udp'.peers = << >>)]_vars

\* C22: decoding a compact peer list of N 6-byte records yields exactly N
\* peers, in order, the i-th with the four address bytes of record i and port
\* 256 * byte 4 + byte 5; a peer string whose length is not a multiple of 6
\* yields a TrackerError and no peers.
C22_CompactPeerDecoding ==
    decoded.shape \in {"peers_only", "interval_first", "peers_first", "udp"} =>
        IF Len(decoded.peer_bytes) % 6 = 0
        THEN /\ decoded.res = "Ok"
             /\ Len(decoded.peers) * 6 = Len(decoded.peer_bytes)
             /\ \A j \in 1 .. Len(decoded.peers) :
                   /\ decoded.peers[j].torrent_id = decoded.torrent_id
                   /\ decoded.peers[j].ip = SubSeq(decoded.peer_bytes, 6 * (j - 1) + 1, 6 * (j - 1) + 4)
                   /\ decoded.peers[j].port = 256 * decoded.peer_bytes[6 * (j - 1) + 5]
                                                + decoded.peer_bytes[6 * (j - 1) + 6]
        ELSE decoded.res = "TrackerError" /\ decoded.peers = << >>

\* a bencoded response with three different records decoded into three peers
C22_Witness ==
    /\ decoded.shape = "interval_first"
    /\ decoded.res = "Ok"
    /\ Len(decoded.peers) = 3
    /\ decoded.peers[1].port = 6881
    /\ decoded.peers[2].ip = << 101, 58, 105, 100 >>
    /\ decoded.peers[3].port = 51413

\* C23: every tracker with last_announce set has next_announce =
\* last_announce + interval, the interval being that of the tracker's last
\* successful response.
C23_NextIsLastPlusInterval ==
    \A t \in TrackerIds :
        trackers[t].last_announce # NoTime =>
            trackers[t].next_announce = trackers[t].last_announce + contacted[t].interval

\* C24: a tracker is announced to only when should_announce holds for its
\* row (no next_announce yet, or now >= next_announce), unless its status
\* changed since it was announced to last.
C24_AnnounceOnlyWhenDue ==
    [][\A k \in AnnounceCalls :
          AnnounceContact(k) =>
             \/ should_announce(trackers[Head(announcing[k].list).id], now)
             \/ trackers[Head(announcing[k].list).id].status # contacted[Head(announcing[k].list).id].status]_vars

\* C29: a failed announce, in either call, leaves the tracker Failed with its
\* next_announce unchanged, and the call goes on with its remaining trackers.
C29_FailedAnnounceMarksFailed ==
    [][\A k \in AnnounceCalls :
          AnnounceResult(k, FALSE, DefaultInterval, "ok") =>
             /\ trackers'[announcing[k].cur.id].status = "Failed"
             /\ trackers'[announcing[k].cur.id].next_announce = trackers[announcing[k].cur.id].next_announce
             /\ announcing'[k].pc = "loop"
             /\ announcing'[k].list = announcing[k].list]_vars

\* C30: a tracker that was marked Failed is eventually announced to again,
\* the torrent being neither Paused nor Completed.
C30_FailedTrackerRetried ==
    \A t \in TrackerIds :
        (trackers[t].status = "Failed" /\ torrent.status \notin {"Paused", "Completed"})
            ~> (\E k \in AnnounceCalls : announcing[k].pc = "wait" /\ announcing[k].cur.id = t)

\* the three checks of a handshake answer: first byte 19, protocol string
\* "BitTorrent protocol", info_hash equal to the torrent's
HandshakeValid(response, info_hash) ==
    /\ Len(response) = 68
    /\ response[1] = 19
    /\ SubSeq(response, 2, 20) = ProtocolName
    /\ SubSeq(response, 29, 48) = hex_decode(info_hash).bytes

\* C25: a peer's persisted status is Connected, and a download task works
\* with a peer, only after a handshake answer that passed all three checks.
C25_ConnectedOnlyAfterValidHandshake ==
    \A p \in Peers :
        /\ handshakes[p].status = "Connected" /\ handshakes[p].path = "connect_to_peer"
              => HandshakeValid(handshakes[p].response, handshakes[p].info_hash)
        /\ peers[p].pc = "loop" /\ handshakes[p].path = "perform_handshake"
              => HandshakeValid(handshakes[p].response, handshakes[p].info_hash)

\* C26: when a piece taken from the queue fails (the task leaves
\* "downloading" and the piece is not verified afterwards, because
\* download_piece failed or mark_piece_completed reported a hash mismatch),
\* a request for that piece is in the queue afterwards at the priority it
\* was taken with, and the task that reported it is back at the top of its
\* loop instead of having ended
C26_FailedPieceRequeuedSamePriority ==
    [][\A p \in Peers :
          peers[p].pc = "downloading" /\ peers'[p].pc # "downloading" /\ ~pieces'[peers[p].piece].verified =>
              /\ \E k \in 1 .. Len(queue') :
                    queue'[k].piece_index = peers[p].piece /\ queue'[k].priority = peers[p].priority
              /\ peers'[p].pc = "loop"]_vars

\* the requests in a queue that a session's background task or its reads
\* put there
RequestsOf(q, s) == {k \in 1 .. Len(q) : q[k].requester = s}

\* a session that close_stream_session removed while its background task
\* was still there
Closed(s) == s \notin DOMAIN sessions /\ s \in prefetch

\* C28: after close_stream_session(s) has returned, the background task of
\* s puts no further request in the queue, it ends and the buffer entry of
\* s is removed; the close itself cancels no request a peer task has taken
C28_CloseStopsPrefetch ==
    /\ [][\A s \in SessionIds :
             /\ Closed(s) => Cardinality(RequestsOf(queue', s)) <= Cardinality(RequestsOf(queue, s))
             /\ (s \in DOMAIN sessions /\ s \notin DOMAIN sessions') => peers' = peers]_vars
    /\ \A s \in SessionIds : Closed(s) ~> (s \notin prefetch /\ s \notin DOMAIN buffers)

\* C27: the progress stored in the torrent row never decreases, whatever
\* the interleaving of handle_piece_data, update_progress, start_download,
\* pause_torrent and resume_torrent, unless a piece has failed verification
C27_ProgressNeverDecreases ==
    [][torrent'.progress >= torrent.progress \/ service'.verification_failed]_vars

\* C37: verified is terminal: a complete_piece call (on its own or from
\* handle_piece_data) whose bytes fail the hash check, made for a piece that
\* is verified with its bytes written, leaves the piece's downloaded and
\* verified flags true
C37_VerifiedIsTerminal ==
    [][\A i \in PieceIdx :
          (/\ pieces[i].downloaded /\ pieces[i].verified /\ Written(i)
           /\ last'.op \in {"complete_piece", "handle_piece_data"} /\ last'.a = i /\ HashMismatch(last'))
             => pieces'[i].downloaded /\ pieces'[i].verified]_vars

\* C39: a session buffer and a background prefetch task exist only for
\* sessions that exist: every session id with a buffer entry or a running
\* prefetch task is in the session table (create_stream_session is one step
\* here, so no such call is ever in progress)
C39_BufferAndTaskOnlyForSessions ==
    \A s \in SessionIds : (s \in DOMAIN buffers \/ s \in prefetch) => s \in DOMAIN sessions

\* C36: concurrent read - modify - write calls on the torrent row lose no
\* update: a status call (pause_torrent, resume_torrent, start_download)
\* writes back the progress the row holds when it writes, and
\* update_progress writes back the status the row holds when it writes
\* (or Completed, which it sets itself); no value read before another
\* call's write is stored over that write
C36_NoLostUpdate ==
    [][\A c \in TorrentCalls :
          /\ (\/ PauseTorrentUpdate(c) \/ ResumeTorrentUpdate(c)
              \/ StartDownloadConnecting(c) \/ StartDownloadDownloading(c, TRUE))
                => torrent'.progress = torrent.progress
          /\ UpdateProgressWrite(c) => torrent'.status \in {torrent.status, "Completed"}]_vars

\* C40: a start_download that returns an error (here: no tracker rows)
\* leaves the persisted status as it was when the call read the row; a
\* torrent without trackers is not left persisted in Connecting
C40_FailedStartLeavesStatus ==
    [][\A c \in TorrentCalls :
          StartDownloadDownloading(c, FALSE) => torrent'.status = service.calls[c].status_read]_vars

\* C31: no request message is sent to a peer while peer_choking is true: a
\* task enters download_piece, whose first step sends a request (id 6),
\* only on a connection whose peer has unchoked
C31_NoRequestWhileChoked ==
    [][\A p \in Peers : (peers[p].pc = "loop" /\ peers'[p].pc = "downloading") => ~choking[p]]_vars

\* C32: peers returned by trackers are upserted: the Peers relation holds
\* at most one row per (torrent_id, ip, port), and every peer of the list an
\* announce returned last is stored
C32_PeersUpserted ==
    /\ \A j \in 1 .. Len(peer_store.rows), k \in 1 .. Len(peer_store.rows) :
          j # k => peer_store.rows[j] # peer_store.rows[k]
    /\ \A n \in 1 .. Len(peer_store.announced) :
          \E k \in 1 .. Len(peer_store.rows) : peer_store.rows[k] = peer_store.announced[n]

\* C33: after remove_torrent(t) succeeds no piece, tracker or peer record of
\* t remains, no stream session or session buffer refers to t, and no piece
\* request for t is queued
C33_RemoveCascades ==
    (last.op = "remove_torrent" /\ last.res = "Ok") =>
        /\ \A k \in 1 .. Len(repo.pieces) : repo.pieces[k].torrent_id # last.a
        /\ \A k \in 1 .. Len(repo.trackers) : repo.trackers[k].torrent_id # last.a
        /\ \A k \in 1 .. Len(peer_store.rows) : peer_store.rows[k].torrent_id # last.a
        /\ DOMAIN sessions = {}
        /\ DOMAIN buffers = {}
        /\ queue = << >>

\* the records of the removed torrent are gone from the tables
C33_RowsGone ==
    (last.op = "remove_torrent" /\ last.res = "Ok") =>
        /\ \A k \in 1 .. Len(repo.pieces) : repo.pieces[k].torrent_id # last.a
        /\ \A k \in 1 .. Len(repo.trackers) : repo.trackers[k].torrent_id # last.a
        /\ \A k \in 1 .. Len(peer_store.rows) : peer_store.rows[k].torrent_id # last.a

\* a torrent with piece, tracker and peer records is about to be removed
C33_HasRows ==
    /\ stored(repo, 1)
    /\ \E k \in 1 .. Len(repo.pieces) : repo.pieces[k].torrent_id = 1
    /\ \E k \in 1 .. Len(repo.trackers) : repo.trackers[k].torrent_id = 1
    /\ \E k \in 1 .. Len(peer_store.rows) : peer_store.rows[k].torrent_id = 1
    /\ queue # << >>

\* pause_torrent has returned and no resume_torrent has been called since
C34_Paused == torrent.status = "Paused" /\ \A c \in TorrentCalls : service.calls[c].op # "resume_torrent"

\* C34: from the return of pause_torrent until resume_torrent no tracker is
\* contacted and no peer task takes a piece request to send, whatever
\* announce and download tasks are running; pausing leaves the persisted
\* pieces, trackers and peers as they are
C34_PausedIsQuiet ==
    [][/\ C34_Paused => /\ \A k \in AnnounceCalls : ~AnnounceContact(k)
                        /\ \A p \in Peers : ~(peers[p].pc = "loop" /\ peers'[p].pc = "downloading")
       /\ \A c \in TorrentCalls : PauseTorrentUpdate(c) => UNCHANGED << pieces, trackers, peer_store >>]_vars

\* the announce part alone
C34_NoAnnounceWhilePaused ==
    [][C34_Paused => \A k \in AnnounceCalls : ~AnnounceContact(k)]_vars

\* the download part alone
C34_NoRequestWhilePaused ==
    [][C34_Paused => \A p \in Peers : ~(peers[p].pc = "loop" /\ peers'[p].pc = "downloading")]_vars

\* the queued High requests the background buffering task of session s submitted
C35_Prefetched(s) == Len(SelectSeq(queue, LAMBDA r : r.requester = s /\ r.priority = High))

\* C35: the queued High requests of a session's background buffering task
\* never outnumber the pieces it buffers ahead (its prefetch window, at
\* least 10 pieces), however many cycles run
C35_PrefetchBounded ==
    \A s \in DOMAIN buffers : C35_Prefetched(s) <= buffers[s].buffer_ahead_pieces

\* the requests of one cycle stay within the window: no piece of the
\* window is requested more than once per cycle
C35_CycleWithinWindow ==
    [][\A s \in SessionIds :
          PrefetchCycleUpTo(s, MaxPrefetchQueue) => Len(queue') - Len(queue) <= buffers[s].buffer_ahead_pieces]_vars

\* C38: no get_buffered_data call panics: the buffer entry its first lookup
\* found is still there at the second lookup, whatever the background
\* buffering task and cleanup_inactive_sessions do in between
C38_NoUnwrapPanic == \A s \in SessionIds : lookups.reads[s].pc # "panicked"

\* cleanup_inactive_sessions alone, without a buffering task leaving its
\* loop, removes no entry between the two lookups of a call
C38_EntryKeptWhileTaskRuns ==
    \A s \in SessionIds : (lookups.reads[s].pc = "found" /\ s \in prefetch /\ s \notin lookups.exiting) => s \in DOMAIN buffers

====
